---------------------------- MODULE Spec2Model ----------------------------
(***************************************************************************)
(* Model of the multilingual diarization / transcription pipeline of      *)
(* whisper-backend/multilingual_pipeline.py.                              *)
(*                                                                         *)
(* Times are integers: one second is TicksPerSecond ticks in the language  *)
(* part, and the Overlap Resolution part draws its inputs on a grid of     *)
(* multiples of 4 so that the midpoints the code computes, (a + b) / 2,    *)
(* are exact integers in a first and in a second pass.                     *)
(***************************************************************************)
EXTENDS Integers, Sequences, FiniteSets

VARIABLES
    min_segment_duration,   \* self.min_segment_duration
    overlap_threshold,      \* self.overlap_threshold
    raw_segments,           \* the list handed to _create_overlap_free_segments
    raw_before,             \* the same list as it was before the call
    clean_segments,         \* the list the call returned
    clean_again,            \* the list a call on clean_segments returned
    or_pc,                  \* "input", "cleaned", "recleaned" ("off" in the other specifications)
    \* segment-level processing (steps 3 of process_multilingual_audio)
    consensus_samples,      \* self.consensus_samples
    min_language_confidence,\* self.min_language_confidence, in 1/ConfOne
    auto_detect,            \* auto_detect_languages and not speaker_languages
    detector_confidences,   \* the confidences the detection oracle can report on this audio
    detector_languages,     \* the languages the detection oracle can report on this audio
    transcriber_languages,  \* the languages the transcription oracle can report on it
    segments,               \* the clean segments handed to the processing loop
    audio_len,              \* len(audio_data) / sr, in ticks
    seg_i,                  \* the loop's position in segments (1-based)
    sp_pc,                  \* "loop", "detect", "transcribe", "known", ("off")
    attempt,                \* the attempts loop's counter
    language_detections,    \* the successful detection attempts of the current segment
    final,                  \* (final_language, final_confidence) once the consensus is determined
    segment_results,        \* the list the loop builds
    oracle_log,             \* per processed segment: which calls raised, the hint passed
    temp_files,             \* self.temp_files: the slice files registered, by position
    disk_files,             \* the slice files of this call that exist on disk
    \* speaker aggregation and final alignment (steps 4 and 5)
    speaker_languages,      \* the map _determine_speaker_languages returned
    segment_weights,        \* the weight computed for each analyzed result, by position
    aligned_segments,       \* the list _create_final_aligned_segments returned
    accuracy_metrics,       \* the dict _calculate_accuracy_metrics returned
    ag_pc,                  \* "results", "aggregated", "aligned", "measured" ("off" before)
    \* speaker diarization (SpeechBrainEngine.diarize_audio)
    audio,                  \* the audio file: the power of each quarter second of samples
    embedding_model,        \* self.embedding_model is not None
    num_speakers,           \* the argument num_speakers, 0 for None
    max_speakers,           \* the argument max_speakers
    voice_activity,         \* has_voice of each frame
    cluster_labels,         \* the array _perform_clustering returned
    diarization,            \* the dict diarize_audio returned: segments, speakers, engine
    dz_pc,                  \* "start", "embedded", "clustered", "clustering_failed", "done" ("off")
    \* a call of process_multilingual_audio
    path_exists,            \* audio_path.exists()
    preprocessing,          \* "no", "requested", then "applied" or "failed"
    run_pc,                 \* "called", "running", "file_not_found" ("off" elsewhere)
    \* invocations of process_multilingual_audio that overlap on one instance
    call_pc,                \* per invocation: "idle", "loop", "slice_saved", "returned"
    call_slice,             \* per invocation: the slice file it has saved and not yet
                            \* processed, 0 for none
    next_file,              \* the next name mkstemp hands out
    \* the job queue (AudioQueueManager and its callers in main.py)
    max_concurrent,         \* self.max_concurrent
    status,                 \* AudioQueue.status per entry ("none": no such row yet)
    task,                   \* per entry: its process_audio_background task is running
    expired,                \* per entry: started_processing_at is over 30 minutes ago
    file_exists,            \* per entry: Path(queue_item.file_path).exists()
    pending,                \* what the running handler does next: "none",
                            \* "start_next", "launch"
    starting                \* the entry start_processing has marked PROCESSING, 0 for none

or_vars == <<min_segment_duration, overlap_threshold, raw_segments, raw_before,
             clean_segments, clean_again, or_pc>>

sp_vars == <<consensus_samples, min_language_confidence, auto_detect,
             detector_confidences, detector_languages, transcriber_languages,
             segments, audio_len, seg_i, sp_pc, attempt,
             language_detections, final, segment_results, oracle_log,
             temp_files, disk_files>>

ag_vars == <<speaker_languages, segment_weights, aligned_segments, accuracy_metrics, ag_pc>>

dz_vars == <<audio, embedding_model, num_speakers, max_speakers, voice_activity, cluster_labels,
             diarization, dz_pc>>

pl_vars == <<path_exists, preprocessing, run_pc>>

cc_vars == <<call_pc, call_slice, next_file>>

qu_vars == <<max_concurrent, status, task, expired, file_exists, pending, starting>>

ex_vars == <<cc_vars, qu_vars>>

vars == <<or_vars, sp_vars, ag_vars, dz_vars, pl_vars, ex_vars>>

\* ------------------------------------------------------------------------
\* Bounds of the model
\* ------------------------------------------------------------------------
MaxSegs == 3        \* raw speaker segments in one input list
MaxTime == 5        \* raw starts and ends lie on the grid 0, 4, .., 4 * MaxTime

SPEAKERS == {"SPEAKER_00", "SPEAKER_01"}

Min(a, b) == IF a <= b THEN a ELSE b
Max(a, b) == IF a >= b THEN a ELSE b

\* final before "Determine consensus language" has run.
NoConsensus == [language |-> "none", confidence |-> 0]

\* The variables of segment-level processing while another part is checked.
SegmentsIdle ==
    /\ consensus_samples = 3
    /\ min_language_confidence = 0
    /\ auto_detect = TRUE
    /\ detector_confidences = {}
    /\ detector_languages = {}
    /\ transcriber_languages = {}
    /\ segments = <<>>
    /\ audio_len = 0
    /\ seg_i = 1
    /\ sp_pc = "off"
    /\ attempt = 0
    /\ language_detections = <<>>
    /\ final = NoConsensus
    /\ segment_results = <<>>
    /\ oracle_log = <<>>
    /\ temp_files = {}
    /\ disk_files = {}

\* The variables of the call while one of its parts is checked.
PipelineIdle ==
    /\ path_exists = TRUE
    /\ preprocessing = "no"
    /\ run_pc = "off"

\* No overlapping invocations.
CallsIdle ==
    /\ call_pc = <<>>
    /\ call_slice = <<>>
    /\ next_file = 1

\* No job queue.
QueueIdle ==
    /\ max_concurrent = 0
    /\ status = <<>>
    /\ task = <<>>
    /\ expired = <<>>
    /\ file_exists = <<>>
    /\ pending = "none"
    /\ starting = 0

\* No diarization result yet.
NoDiarization ==
    [segments |-> <<>>, speakers |-> {}, engine |-> "none", clustering_failed |-> FALSE]

\* The variables of speaker diarization while another part is checked.
DiarizeIdle ==
    /\ audio = <<>>
    /\ embedding_model = TRUE
    /\ num_speakers = 0
    /\ max_speakers = 0
    /\ voice_activity = <<>>
    /\ cluster_labels = <<>>
    /\ diarization = NoDiarization
    /\ dz_pc = "off"

\* The variables of aggregation and alignment while another part is checked.
AggregateIdle ==
    /\ speaker_languages = <<>>
    /\ segment_weights = <<>>
    /\ aligned_segments = <<>>
    /\ accuracy_metrics = <<>>
    /\ ag_pc = "off"

\* ------------------------------------------------------------------------
\* Overlap Resolution: _create_overlap_free_segments
\* ------------------------------------------------------------------------
GridTimes == {4 * t : t \in 0..MaxTime}

\* A raw speaker segment as the diarizer builds it: duration = end - start.
RawSegment(s, e, sp) == [start |-> s, end |-> e, duration |-> e - s, speaker |-> sp]

RawSegments ==
    {RawSegment(s, e, sp) : s \in GridTimes, e \in GridTimes, sp \in SPEAKERS}

\* sorted(raw_segments, key=lambda x: x['start']): a stable sort; the result
\* lists the positions of raw_segments in sorted order (the sorted list holds
\* the same dict objects as raw_segments).
SortRank(segs, k) ==
    Cardinality({j \in 1..Len(segs) :
        \/ segs[j].start < segs[k].start
        \/ (segs[j].start = segs[k].start /\ j < k)}) + 1

SortedOrder(segs) ==
    [i \in 1..Len(segs) |-> CHOOSE k \in 1..Len(segs) : SortRank(segs, k) = i]

\* The dict appended at "Add validated segment".
ValidatedSegment(segment, n) ==
    [start |-> segment.start, end |-> segment.end, duration |-> segment.duration,
     speaker |-> segment.speaker, segment_id |-> n]

\* The loop body that skips every segment that starts before the previous
\* clean segment ends.
LoopBodySkipOverlapping(st, k, minDur, thr) ==
    IF st.raw[k].duration < minDur
    THEN st
    ELSE IF Len(st.clean) > 0 /\ st.raw[k].start < st.clean[Len(st.clean)].end
    THEN st
    ELSE [raw |-> st.raw,
          clean |-> Append(st.clean, ValidatedSegment(st.raw[k], Len(st.clean)))]

\* One iteration of the for loop, on the dict at position k of raw_segments.
\* st.raw is the input list (its dicts are written in place), st.clean is
\* clean_segments.
LoopBody(st, k, minDur, thr) ==
    LET segment == st.raw[k]
        clean == st.clean
        n == Len(clean)
    IN
    IF segment.duration < minDur
    THEN st
    ELSE IF n > 0 /\ segment.start < clean[n].end
    THEN
        LET prev_segment == clean[n]
            overlap == prev_segment.end - segment.start
        IN
        IF overlap <= thr
        THEN \* small overlap: split at midpoint
            LET midpoint == (prev_segment.end + segment.start) \div 2
                cut == [segment EXCEPT !.start = midpoint,
                                       !.duration = segment.end - midpoint]
                shrunk == [prev_segment EXCEPT !.end = midpoint,
                                               !.duration = midpoint - prev_segment.start]
            IN [raw |-> [st.raw EXCEPT ![k] = cut],
                clean |-> Append([clean EXCEPT ![n] = shrunk], ValidatedSegment(cut, n))]
        ELSE IF segment.speaker = prev_segment.speaker
        THEN \* same speaker: merge
            LET newEnd == Max(prev_segment.end, segment.end)
                merged == [prev_segment EXCEPT !.end = newEnd,
                                               !.duration = newEnd - prev_segment.start]
            IN [raw |-> st.raw, clean |-> [clean EXCEPT ![n] = merged]]
        ELSE IF segment.duration > overlap
        THEN \* different speakers: trim the new segment
            LET cut == [segment EXCEPT !.start = prev_segment.end,
                                       !.duration = segment.end - prev_segment.end]
            IN [raw |-> [st.raw EXCEPT ![k] = cut],
                clean |-> Append(clean, ValidatedSegment(cut, n))]
        ELSE st
    ELSE [raw |-> st.raw, clean |-> Append(clean, ValidatedSegment(segment, n))]

RECURSIVE RunLoop(_, _, _, _, _)
RunLoop(st, order, i, minDur, thr) ==
    IF i > Len(order) THEN st
    ELSE RunLoop(LoopBody(st, order[i], minDur, thr), order, i + 1, minDur, thr)

\* The loop's state when it reaches the i-th dict of the sorted list.
RECURSIVE LoopStateBefore(_, _, _, _)
LoopStateBefore(raw, i, minDur, thr) ==
    IF i <= 1 THEN [raw |-> raw, clean |-> <<>>]
    ELSE LoopBody(LoopStateBefore(raw, i - 1, minDur, thr), SortedOrder(raw)[i - 1],
                  minDur, thr)

\* The call: returns the clean list and leaves the input list as written.
create_overlap_free_segments(raw, minDur, thr) ==
    RunLoop([raw |-> raw, clean |-> <<>>], SortedOrder(raw), 1, minDur, thr)

\* The fields of a returned segment that a later call reads.
AsRaw(segs) ==
    [i \in 1..Len(segs) |->
        [start |-> segs[i].start, end |-> segs[i].end,
         duration |-> segs[i].duration, speaker |-> segs[i].speaker]]

\* (min_segment_duration, overlap_threshold) in ticks; the constructor's
\* defaults 0.5 s / 0.1 s have min_segment_duration > overlap_threshold.
OverlapParams == {<<0, 0>>, <<8, 4>>, <<12, 12>>}

\* Input lists: in ascending or in descending order of start (the diarizer
\* emits ascending lists; descending ones make the sort reorder every pair).
\* The call only compares speaker labels for equality, so lists that differ
\* by a renaming of the speakers behave alike: the first dict is SPEAKER_00's.
ProperSegments == {x \in RawSegments : x.start < x.end}

Ascending(r) == \A i \in 1..(Len(r) - 1) : r[i].start <= r[i + 1].start
Descending(r) == \A i \in 1..(Len(r) - 1) : r[i].start >= r[i + 1].start

OverlapInit ==
    /\ \E p \in OverlapParams :
          /\ min_segment_duration = p[1]
          /\ overlap_threshold = p[2]
    /\ \E n \in 0..MaxSegs : \E r \in [1..n -> ProperSegments] :
          /\ Ascending(r) \/ Descending(r)
          /\ n > 0 => r[1].speaker = "SPEAKER_00"
          /\ raw_segments = r
    /\ raw_before = raw_segments
    /\ clean_segments = <<>>
    /\ clean_again = <<>>
    /\ or_pc = "input"
    /\ SegmentsIdle
    /\ AggregateIdle
    /\ DiarizeIdle
    /\ PipelineIdle
    /\ CallsIdle
    /\ QueueIdle

\* process_multilingual_audio, step 2: clean_segments = self._create_overlap_free_segments(...)
CreateOverlapFree ==
    /\ or_pc = "input"
    /\ LET r == create_overlap_free_segments(raw_segments, min_segment_duration,
                                             overlap_threshold)
       IN /\ raw_segments' = r.raw
          /\ clean_segments' = r.clean
    /\ or_pc' = "cleaned"
    /\ UNCHANGED <<min_segment_duration, overlap_threshold, raw_before, clean_again>>
    /\ UNCHANGED sp_vars
    /\ UNCHANGED ag_vars
    /\ UNCHANGED dz_vars
    /\ UNCHANGED pl_vars
    /\ UNCHANGED ex_vars

\* A second call, on the list the first call returned.
CleanAgain ==
    /\ or_pc = "cleaned"
    /\ clean_again' = create_overlap_free_segments(AsRaw(clean_segments),
                          min_segment_duration, overlap_threshold).clean
    /\ or_pc' = "recleaned"
    /\ UNCHANGED <<min_segment_duration, overlap_threshold, raw_segments, raw_before,
                   clean_segments>>
    /\ UNCHANGED sp_vars
    /\ UNCHANGED ag_vars
    /\ UNCHANGED dz_vars
    /\ UNCHANGED pl_vars
    /\ UNCHANGED ex_vars

OverlapNext == CreateOverlapFree \/ CleanAgain

SpecOverlap == OverlapInit /\ [][OverlapNext]_vars

\* ------------------------------------------------------------------------
\* Segment-level processing: _process_segments_with_language_detection,
\* _process_single_segment_with_detection, _process_segments_with_known_languages
\* ------------------------------------------------------------------------
\* Confidences are integers in units of 1/ConfOne; the detector's values are
\* multiples of 60, so the mean of up to six of them is exact.
ConfOne == 1200
DefaultMinConfidence == 840         \* min_language_confidence = 0.7
FallbackConfidence == 600           \* 0.5
DefaultConsensusSamples == 3
MaxSamples == 4                     \* consensus_samples ranges over 1..MaxSamples
MaxCleanSegs == 2                   \* clean segments in one processing run

TicksPerSecond == 10
MinSliceTicks == 3                  \* 0.3 s of samples

LANGUAGES == {"en", "de"}
DetectorConfidences == {480, 960, 1080, 1140}      \* 0.4, 0.8, 0.9, 0.95

\* A text is known by its length and its number of words.
Text(chars, words) == [chars |-> chars, words |-> words]
EmptyText == Text(0, 0)

\* The messages of the exceptions the loop can catch: str(e) by length and words.
ErrorText(error) ==
    CASE error = "too_short" -> Text(9, 1)
      [] error = "Error opening file" -> Text(18, 3)
      [] error = "Transcription failed" -> Text(20, 2)
      [] error = "No usable temporary directory" -> Text(29, 4)
      [] OTHER -> Text(5, 1)

\* _create_failed_segment_result
create_failed_segment_result(segment, error) ==
    [segment_id |-> segment.segment_id,
     start |-> segment.start,
     end |-> segment.end,
     duration |-> segment.duration,
     speaker |-> segment.speaker,
     text |-> Text(21 + ErrorText(error).chars, 2 + ErrorText(error).words),
     language |-> "unknown",
     language_confidence |-> 0,
     processing_status |-> "failed",
     error |-> error]

\* audio_data[start_sample:end_sample]: a slice is clipped to the audio.
SliceLen(segment, alen) ==
    Max(0, Min(segment.end, alen) - Max(0, Min(segment.start, alen)))

TooShort(segment, alen) == SliceLen(segment, alen) < MinSliceTicks

\* Counter(languages).most_common(1)[0]: the most frequent language, the one
\* seen first among equally frequent ones.
CountOf(dets, lang) == Cardinality({i \in 1..Len(dets) : dets[i].language = lang})

FirstAt(dets, lang) ==
    CHOOSE i \in 1..Len(dets) :
        /\ dets[i].language = lang
        /\ \A j \in 1..(i - 1) : dets[j].language # lang

MostCommon(dets) ==
    LET langs == {dets[i].language : i \in 1..Len(dets)}
    IN CHOOSE l \in langs :
          \A m \in langs \ {l} :
              \/ CountOf(dets, l) > CountOf(dets, m)
              \/ (CountOf(dets, l) = CountOf(dets, m) /\ FirstAt(dets, l) < FirstAt(dets, m))

RECURSIVE SumConfidence(_, _, _)
SumConfidence(dets, lang, i) ==
    IF i > Len(dets) THEN 0
    ELSE (IF dets[i].language = lang THEN dets[i].confidence ELSE 0)
         + SumConfidence(dets, lang, i + 1)

\* max(language_detections, key=lambda x: x['confidence']): the first maximum.
BestDetection(dets) ==
    dets[CHOOSE i \in 1..Len(dets) :
            /\ \A j \in 1..Len(dets) : dets[j].confidence <= dets[i].confidence
            /\ \A j \in 1..(i - 1) : dets[j].confidence < dets[i].confidence]

\* The threshold with ">" for ">=": three samples would have to be unanimous.
ConsensusReachedStrictly(count, samples) == count > (samples + 1) \div 2

\* count >= (self.consensus_samples + 1) // 2
ConsensusReached(count, samples) == count >= (samples + 1) \div 2

\* "Determine consensus language": (final_language, final_confidence).
DetermineConsensus(dets, samples) ==
    IF Len(dets) > 0
    THEN LET most_common_lang == MostCommon(dets)
             count == CountOf(dets, most_common_lang)
         IN IF ConsensusReached(count, samples)
            THEN [language |-> most_common_lang,
                  confidence |-> SumConfidence(dets, most_common_lang, 1) \div count]
            ELSE [language |-> BestDetection(dets).language,
                  confidence |-> BestDetection(dets).confidence]
    ELSE [language |-> "en", confidence |-> 0]

\* The hint given only above the threshold.
UseHintAboveThreshold(consensus, minConf) == consensus.confidence > minConf

\* "Transcribe with detected language": the language hint passed to the oracle.
UseHint(consensus, minConf) == consensus.confidence >= minConf

SuccessResult(segment, text, language, confidence) ==
    [segment_id |-> segment.segment_id,
     start |-> segment.start,
     end |-> segment.end,
     duration |-> segment.duration,
     speaker |-> segment.speaker,
     text |-> text,
     language |-> language,
     language_confidence |-> confidence,
     processing_status |-> "success",
     error |-> "none"]

\* speaker_languages.get(speaker, 'en') on the manual assignment of a run.
KnownLanguages == [s \in {"SPEAKER_00"} |-> "de"]
KnownLanguage(speaker) ==
    IF speaker \in DOMAIN KnownLanguages THEN KnownLanguages[speaker] ELSE "en"

\* What the transcription oracle can return: text and reported language.
OracleTexts == {EmptyText, Text(11, 2)}
OracleLanguages == LANGUAGES \cup {"unknown"}

LogEntry(raised, hint) == [raised |-> raised, hint |-> hint]

CurrentSegment == segments[seg_i]

InLoop == sp_pc = "loop" /\ seg_i <= Len(segments)

\* What no step of the loops writes.
LoopFrame ==
    UNCHANGED <<consensus_samples, min_language_confidence, auto_detect,
                detector_confidences, detector_languages, transcriber_languages,
                segments, audio_len>>

\* The result is appended and the loop goes on to the next segment.
NextSegment(result, entry) ==
    /\ segment_results' = Append(segment_results, result)
    /\ oracle_log' = Append(oracle_log, entry)
    /\ seg_i' = seg_i + 1
    /\ sp_pc' = "loop"
    /\ attempt' = 0
    /\ language_detections' = <<>>
    /\ final' = NoConsensus
    /\ LoopFrame

Finish(result, entry) ==
    /\ NextSegment(result, entry)
    /\ UNCHANGED <<temp_files, disk_files>>
    /\ UNCHANGED or_vars
    /\ UNCHANGED ag_vars
    /\ UNCHANGED dz_vars
    /\ UNCHANGED pl_vars
    /\ UNCHANGED ex_vars

\* "Skip if too short" (both loops)
SliceTooShort ==
    /\ InLoop
    /\ TooShort(CurrentSegment, audio_len)
    /\ Finish(create_failed_segment_result(CurrentSegment, "too_short"),
              LogEntry({}, "not_called"))

\* tempfile.mkstemp raises: the loop's except; no file was created.
MkstempRaises ==
    /\ InLoop
    /\ ~TooShort(CurrentSegment, audio_len)
    /\ Finish(create_failed_segment_result(CurrentSegment, "No usable temporary directory"),
              LogEntry({"mkstemp"}, "not_called"))

\* sf.write raises on the file mkstemp created: the loop's except, reached
\* before self.temp_files.append(temp_path).
SliceWriteRaises ==
    /\ InLoop
    /\ ~TooShort(CurrentSegment, audio_len)
    /\ NextSegment(create_failed_segment_result(CurrentSegment, "Error opening file"),
                   LogEntry({"write"}, "not_called"))
    /\ disk_files' = disk_files \cup {seg_i}
    /\ UNCHANGED temp_files
    /\ UNCHANGED or_vars
    /\ UNCHANGED ag_vars
    /\ UNCHANGED dz_vars
    /\ UNCHANGED pl_vars
    /\ UNCHANGED ex_vars

\* The slice is saved; the segment goes to detection or to the known-language call.
SliceSaved ==
    /\ InLoop
    /\ ~TooShort(CurrentSegment, audio_len)
    /\ sp_pc' = IF auto_detect THEN "detect" ELSE "known"
    /\ attempt' = 0
    /\ language_detections' = <<>>
    /\ temp_files' = temp_files \cup {seg_i}
    /\ disk_files' = disk_files \cup {seg_i}
    /\ LoopFrame
    /\ UNCHANGED <<seg_i, final, segment_results, oracle_log>>
    /\ UNCHANGED or_vars
    /\ UNCHANGED ag_vars
    /\ UNCHANGED dz_vars
    /\ UNCHANGED pl_vars
    /\ UNCHANGED ex_vars

\* One attempt of the loop "for attempt in range(self.consensus_samples)".
DetectOk ==
    /\ sp_pc = "detect"
    /\ attempt < consensus_samples
    /\ \E l \in detector_languages, c \in detector_confidences :
          language_detections' =
              Append(language_detections,
                     [language |-> l, confidence |-> c, attempt |-> attempt])
    /\ attempt' = attempt + 1
    /\ LoopFrame
    /\ UNCHANGED <<seg_i, sp_pc, final, segment_results, oracle_log, temp_files,
                   disk_files>>
    /\ UNCHANGED or_vars
    /\ UNCHANGED ag_vars
    /\ UNCHANGED dz_vars
    /\ UNCHANGED pl_vars
    /\ UNCHANGED ex_vars

\* The attempt raises: "except Exception: continue".  The raise is remembered
\* in the attempt counter only; DetectionRaised tells it from the detections.
DetectRaises ==
    /\ sp_pc = "detect"
    /\ attempt < consensus_samples
    /\ attempt' = attempt + 1
    /\ LoopFrame
    /\ UNCHANGED <<seg_i, sp_pc, final, language_detections, segment_results,
                   oracle_log, temp_files, disk_files>>
    /\ UNCHANGED or_vars
    /\ UNCHANGED ag_vars
    /\ UNCHANGED dz_vars
    /\ UNCHANGED pl_vars
    /\ UNCHANGED ex_vars

DetectionRaised == IF Len(language_detections) < attempt THEN {"detect"} ELSE {}

\* "Determine consensus language", after the last attempt.
Consensus ==
    /\ sp_pc = "detect"
    /\ attempt = consensus_samples
    /\ final' = DetermineConsensus(language_detections, consensus_samples)
    /\ sp_pc' = "transcribe"
    /\ LoopFrame
    /\ UNCHANGED <<seg_i, attempt, language_detections, segment_results, oracle_log,
                   temp_files, disk_files>>
    /\ UNCHANGED or_vars
    /\ UNCHANGED ag_vars
    /\ UNCHANGED dz_vars
    /\ UNCHANGED pl_vars
    /\ UNCHANGED ex_vars

\* "Transcribe with detected language": transcribe_audio returns.
TranscribeOk ==
    /\ sp_pc = "transcribe"
    /\ \E text \in OracleTexts, reported \in transcriber_languages :
          IF UseHint(final, min_language_confidence)
          THEN Finish(SuccessResult(CurrentSegment, text, final.language,
                                    final.confidence),
                      LogEntry(DetectionRaised, final.language))
          ELSE Finish(SuccessResult(CurrentSegment, text, reported,
                                    FallbackConfidence),
                      LogEntry(DetectionRaised, "none"))

\* transcribe_audio raises: the function's outer except.
TranscribeRaises ==
    /\ sp_pc = "transcribe"
    /\ Finish(create_failed_segment_result(CurrentSegment, "Transcription failed"),
              LogEntry(DetectionRaised \cup {"transcribe"},
                       IF UseHint(final, min_language_confidence)
                       THEN final.language ELSE "none"))

\* _process_segments_with_known_languages: transcribe_audio returns.
KnownTranscribeOk ==
    /\ sp_pc = "known"
    /\ \E text \in OracleTexts :
          Finish(SuccessResult(CurrentSegment, text,
                               KnownLanguage(CurrentSegment.speaker), ConfOne),
                 LogEntry({}, KnownLanguage(CurrentSegment.speaker)))

\* _process_segments_with_known_languages: transcribe_audio raises.
KnownTranscribeRaises ==
    /\ sp_pc = "known"
    /\ Finish(create_failed_segment_result(CurrentSegment, "Transcription failed"),
              LogEntry({"transcribe"}, KnownLanguage(CurrentSegment.speaker)))

\* librosa.load raises before the loop: the run raises with no result.
AudioLoadRaises ==
    /\ sp_pc = "loop"
    /\ seg_i = 1
    /\ sp_pc' = "raised"
    /\ LoopFrame
    /\ UNCHANGED <<seg_i, attempt, language_detections, final, segment_results,
                   oracle_log, temp_files, disk_files>>
    /\ UNCHANGED or_vars
    /\ UNCHANGED ag_vars
    /\ UNCHANGED dz_vars
    /\ UNCHANGED pl_vars
    /\ UNCHANGED ex_vars

\* The loop is through: "return segment_results".
LoopReturns ==
    /\ sp_pc = "loop"
    /\ seg_i > Len(segments)
    /\ sp_pc' = "returned"
    /\ ag_pc' = "results"
    /\ LoopFrame
    /\ UNCHANGED <<seg_i, attempt, language_detections, final, segment_results,
                   oracle_log, temp_files, disk_files>>
    /\ UNCHANGED <<speaker_languages, segment_weights, aligned_segments,
                   accuracy_metrics>>
    /\ UNCHANGED or_vars
    /\ UNCHANGED dz_vars
    /\ UNCHANGED pl_vars
    /\ UNCHANGED ex_vars

\* _cleanup_temp_files, in the finally of process_multilingual_audio: after
\* the results are assembled, or on the way out of a raise.
CleanupTempFiles ==
    /\ \/ sp_pc = "raised"
       \/ (sp_pc = "returned" /\ ag_pc = "measured")
    /\ disk_files' = disk_files \ temp_files
    /\ temp_files' = {}
    /\ sp_pc' = IF sp_pc = "raised" THEN "raised_out" ELSE "finished"
    /\ LoopFrame
    /\ UNCHANGED <<seg_i, attempt, language_detections, final, segment_results,
                   oracle_log>>
    /\ UNCHANGED or_vars
    /\ UNCHANGED ag_vars
    /\ UNCHANGED dz_vars
    /\ UNCHANGED pl_vars
    /\ UNCHANGED ex_vars

\* _process_single_segment_with_detection
DetectNext ==
    \/ DetectOk
    \/ DetectRaises
    \/ Consensus
    \/ TranscribeOk
    \/ TranscribeRaises

\* The loops over the clean segments, on both paths.
SegmentsNext ==
    \/ AudioLoadRaises
    \/ SliceTooShort
    \/ MkstempRaises
    \/ SliceWriteRaises
    \/ SliceSaved
    \/ DetectOk
    \/ DetectRaises
    \/ Consensus
    \/ TranscribeOk
    \/ TranscribeRaises
    \/ KnownTranscribeOk
    \/ KnownTranscribeRaises
    \/ LoopReturns

\* The variables of Overlap Resolution while another part is checked.
OverlapIdle ==
    /\ min_segment_duration = 0
    /\ overlap_threshold = 0
    /\ raw_segments = <<>>
    /\ raw_before = <<>>
    /\ clean_segments = <<>>
    /\ clean_again = <<>>
    /\ or_pc = "off"

\* A clean segment as Overlap Resolution returns it.
CleanSegment(s, d, sp, id) ==
    [start |-> s, end |-> s + d, duration |-> d, speaker |-> sp, segment_id |-> id]

\* Clean lists of back-to-back segments from time 0.
RECURSIVE CleanLists(_)
CleanLists(n) ==
    IF n = 0 THEN {<<>>}
    ELSE LET shorter == CleanLists(n - 1)
         IN shorter \cup
            {Append(r, CleanSegment(IF Len(r) = 0 THEN 0 ELSE r[Len(r)].end, d, sp, Len(r))) :
                r \in {q \in shorter : Len(q) = n - 1},
                d \in {2, 20}, sp \in SPEAKERS}

LastEnd(segs) == IF Len(segs) = 0 THEN 0 ELSE segs[Len(segs)].end

\* The audio holds every segment, or ends 19 ticks early: the diarizer pads a
\* short file before it cuts frames, the loop slices the unpadded file.
AudioLens(segs) == {LastEnd(segs), Max(0, LastEnd(segs) - 19)}

SegmentsStart ==
    /\ seg_i = 1
    /\ sp_pc = "loop"
    /\ attempt = 0
    /\ language_detections = <<>>
    /\ final = NoConsensus
    /\ segment_results = <<>>
    /\ oracle_log = <<>>
    /\ temp_files = {}
    /\ disk_files = {}

\* One call of _process_single_segment_with_detection on a saved slice, for
\* every consensus_samples and the detector's whole range.
DetectInit ==
    /\ OverlapIdle
    /\ consensus_samples \in 1..MaxSamples
    /\ min_language_confidence \in {FallbackConfidence, DefaultMinConfidence}
    /\ auto_detect = TRUE
    /\ detector_confidences = DetectorConfidences
    /\ detector_languages = LANGUAGES
    /\ transcriber_languages = OracleLanguages
    /\ segments = <<CleanSegment(0, 20, "SPEAKER_00", 0)>>
    /\ audio_len = 20
    /\ seg_i = 1
    /\ sp_pc = "detect"
    /\ attempt = 0
    /\ language_detections = <<>>
    /\ final = NoConsensus
    /\ segment_results = <<>>
    /\ oracle_log = <<>>
    /\ temp_files = {1}
    /\ disk_files = {1}
    /\ AggregateIdle
    /\ DiarizeIdle
    /\ PipelineIdle
    /\ CallsIdle
    /\ QueueIdle

SpecDetect == DetectInit /\ [][DetectNext]_vars

\* Runs over lists of clean segments, on both paths, with the defaults.
SegmentsInit ==
    /\ OverlapIdle
    /\ consensus_samples = DefaultConsensusSamples
    /\ min_language_confidence = DefaultMinConfidence
    /\ auto_detect \in BOOLEAN
    /\ detector_confidences = {480, 1080}
    /\ detector_languages = LANGUAGES
    /\ transcriber_languages = OracleLanguages
    /\ segments \in CleanLists(MaxCleanSegs)
    /\ audio_len \in AudioLens(segments)
    /\ SegmentsStart
    /\ AggregateIdle
    /\ DiarizeIdle
    /\ PipelineIdle
    /\ CallsIdle
    /\ QueueIdle

SpecSegments == SegmentsInit /\ [][SegmentsNext]_vars

\* ------------------------------------------------------------------------
\* Speaker aggregation and final alignment: _determine_speaker_languages,
\* _create_final_aligned_segments
\* ------------------------------------------------------------------------
\* Weights are integers in units of 1/WeightOne; a profile's confidence and
\* consistency are in units of 1/ConfOne, the confidence rounded down (a
\* comparison with a threshold of whole units is not affected).
WeightOne == 12000
MaxResults == 2                     \* segment results in one run

\* Python's None.
None == "None"

\* Every result collected, whatever its status.
AnalyzedWhateverStatus(result) == result.language_confidence >= 0

\* result.get('processing_status') == 'success' and result.get('language_confidence', 0) > 0
Analyzed(result) ==
    result.processing_status = "success" /\ result.language_confidence > 0

\* len(result.get('text', '')) / max(result['duration'], 1)
TextQuality(result) ==
    (result.text.chars * TicksPerSecond * WeightOne)
        \div Max(result.duration, TicksPerSecond)

\* The dict appended to speaker_language_data[speaker].
LanguageDatum(result) ==
    [language |-> result.language,
     confidence |-> result.language_confidence,
     duration |-> result.duration,
     text_quality |-> TextQuality(result)]

IsAnalyzedOf(result, speaker) == Analyzed(result) /\ result.speaker = speaker

\* speaker_language_data[speaker]: the analyzed results of the speaker, in order.
LanguageData(results, speaker) ==
    LET own == SelectSeq(results, LAMBDA r : IsAnalyzedOf(r, speaker))
    IN [i \in 1..Len(own) |-> LanguageDatum(own[i])]

\* confidence * 0.5 + min(duration / 5.0, 1.0) * 0.3 + min(text_quality, 1.0) * 0.2
Weight(data) ==
    (data.confidence * (WeightOne \div 2)) \div ConfOne
    + (((3 * WeightOne) \div 10) * Min(data.duration, 5 * TicksPerSecond))
          \div (5 * TicksPerSecond)
    + (2 * Min(data.text_quality, WeightOne)) \div 10

\* language_scores[lang]['weight'], summed over the languages in langs.
RECURSIVE SumWeight(_, _, _)
SumWeight(language_data, langs, i) ==
    IF i > Len(language_data) THEN 0
    ELSE (IF language_data[i].language \in langs THEN Weight(language_data[i]) ELSE 0)
         + SumWeight(language_data, langs, i + 1)

\* The branch "if not language_data".
DefaultProfile ==
    [language |-> "en", confidence |-> 0, segments_analyzed |-> 0, consistency |-> 0]

\* The primary language taken to be the language of the speaker's first segment.
PrimaryLanguageFirstSeen(language_data) == language_data[1].language

\* max(language_scores.keys(), key=...): the first key, in order of insertion,
\* among those of the highest weight.
PrimaryLanguage(language_data) ==
    LET langs == {language_data[i].language : i \in 1..Len(language_data)}
        w(l) == SumWeight(language_data, {l}, 1)
    IN CHOOSE l \in langs :
          \A m \in langs \ {l} :
              \/ w(l) > w(m)
              \/ (w(l) = w(m) /\ FirstAt(language_data, l) < FirstAt(language_data, m))

\* The sum of the confidences of language_data from position i on.
RECURSIVE SumDataConfidence(_, _)
SumDataConfidence(language_data, i) ==
    IF i > Len(language_data) THEN 0
    ELSE language_data[i].confidence + SumDataConfidence(language_data, i + 1)

\* The profile whose confidence is the mean confidence of the speaker's
\* segments instead of the primary language's share of the weight.
SpeakerProfileMeanConfidence(language_data) ==
    IF Len(language_data) = 0
    THEN DefaultProfile
    ELSE [language |-> PrimaryLanguage(language_data),
          confidence |-> SumDataConfidence(language_data, 1) \div Len(language_data),
          segments_analyzed |-> Len(language_data),
          consistency |->
              (CountOf(language_data, PrimaryLanguage(language_data)) * ConfOne)
                  \div Len(language_data)]

\* The profile of one speaker of speaker_language_data.
SpeakerProfile(language_data) ==
    IF Len(language_data) = 0
    THEN DefaultProfile
    ELSE LET langs == {language_data[i].language : i \in 1..Len(language_data)}
             total_weight == SumWeight(language_data, langs, 1)
             primary_lang == PrimaryLanguage(language_data)
             primary_weight == SumWeight(language_data, {primary_lang}, 1)
             primary_confidence ==
                 IF total_weight > 0
                 THEN (primary_weight * ConfOne) \div total_weight
                 ELSE 0
         IN [language |-> primary_lang,
             confidence |-> Min(primary_confidence, ConfOne),
             segments_analyzed |-> Len(language_data),
             consistency |->
                 (CountOf(language_data, primary_lang) * ConfOne) \div Len(language_data)]

\* The keys of speaker_language_data: a defaultdict gets a key when a result
\* is appended under it.
DataSpeakers(results) ==
    {results[i].speaker : i \in {j \in 1..Len(results) : Analyzed(results[j])}}

\* _determine_speaker_languages
determine_speaker_languages(results) ==
    [speaker \in DataSpeakers(results) |-> SpeakerProfile(LanguageData(results, speaker))]

\* The local "weight" of the inner loop, by the position of the result.
SegmentWeights(results) ==
    [i \in {j \in 1..Len(results) : Analyzed(results[j])} |->
        Weight(LanguageDatum(results[i]))]

\* speaker_languages.get(speaker, {}) followed by .get('language', 'unknown')
\* and .get('confidence', 0.0)
SpeakerLangInfo(profiles, speaker) ==
    IF speaker \in DOMAIN profiles
    THEN [language |-> profiles[speaker].language,
          confidence |-> profiles[speaker].confidence]
    ELSE [language |-> "unknown", confidence |-> 0]

\* "Choose best language assignment" with the last branch yielding no language.
ChooseAssignmentNoFallback(segment_lang, segment_confidence, speaker_primary_lang, speaker_confidence, minConf) ==
    IF segment_confidence >= minConf
    THEN [language |-> segment_lang, confidence |-> segment_confidence,
          method |-> "segment_level"]
    ELSE IF speaker_confidence >= minConf
    THEN [language |-> speaker_primary_lang, confidence |-> speaker_confidence,
          method |-> "speaker_level"]
    ELSE [language |-> None, confidence |-> 0, method |-> "fallback"]

\* "Choose best language assignment" with the speaker's profile asked first.
ChooseAssignmentSpeakerFirst(segment_lang, segment_confidence, speaker_primary_lang, speaker_confidence, minConf) ==
    IF speaker_confidence >= minConf
    THEN [language |-> speaker_primary_lang, confidence |-> speaker_confidence,
          method |-> "speaker_level"]
    ELSE IF segment_confidence >= minConf
    THEN [language |-> segment_lang, confidence |-> segment_confidence,
          method |-> "segment_level"]
    ELSE [language |-> "en", confidence |-> FallbackConfidence, method |-> "fallback"]

\* "Choose best language assignment"
ChooseAssignment(segment_lang, segment_confidence, speaker_primary_lang, speaker_confidence, minConf) ==
    IF segment_confidence >= minConf
    THEN [language |-> segment_lang, confidence |-> segment_confidence,
          method |-> "segment_level"]
    ELSE IF speaker_confidence >= minConf
    THEN [language |-> speaker_primary_lang, confidence |-> speaker_confidence,
          method |-> "speaker_level"]
    ELSE [language |-> "en", confidence |-> FallbackConfidence, method |-> "fallback"]

\* The dict appended to aligned_segments for one result.
AlignedSegment(result, profiles, minConf) ==
    LET info == SpeakerLangInfo(profiles, result.speaker)
        chosen == ChooseAssignment(result.language, result.language_confidence,
                                   info.language, info.confidence, minConf)
    IN [start |-> result.start,
        end |-> result.end,
        duration |-> result.duration,
        text |-> result.text,
        speaker |-> result.speaker,
        language |-> chosen.language,
        language_confidence |-> chosen.confidence,
        language_assignment_method |-> chosen.method,
        segment_language |-> result.language,
        segment_language_confidence |-> result.language_confidence,
        speaker_primary_language |-> info.language,
        words |-> <<>>,
        processing_status |-> result.processing_status]

\* _create_final_aligned_segments, the closing sort by start included.
create_final_aligned_segments(results, profiles, minConf) ==
    LET aligned == [i \in 1..Len(results) |-> AlignedSegment(results[i], profiles, minConf)]
        order == SortedOrder(aligned)
    IN [i \in 1..Len(aligned) |-> aligned[order[i]]]

\* The results a processing run can hand over: failed ones, and successful
\* ones with the consensus confidence of a hinted transcription, with the
\* fallback confidence and the language the transcription reported, or with
\* the confidence of a known language.
ResultTexts == {EmptyText, Text(11, 2)}
ResultDurations == {5, 60}          \* 0.5 s and 6 s
ResultLanguages ==
    {<<l, c>> : l \in LANGUAGES, c \in {1080, ConfOne}}
        \cup {<<l, FallbackConfidence>> : l \in OracleLanguages}

ResultKinds ==
    {[status |-> "failed", error |-> e, text |-> EmptyText, language |-> "unknown",
      confidence |-> 0] : e \in {"too_short", "Transcription failed"}}
        \cup {[status |-> "success", error |-> "none", text |-> t, language |-> lc[1],
               confidence |-> lc[2]] : t \in ResultTexts, lc \in ResultLanguages}

ResultChoices ==
    [duration : ResultDurations, speaker : SPEAKERS, kind : ResultKinds]

\* The start of the i-th of back-to-back segments.
RECURSIVE StartOf(_, _)
StartOf(choices, i) ==
    IF i = 1 THEN 0 ELSE StartOf(choices, i - 1) + choices[i - 1].duration

SegmentOf(choices, i) ==
    CleanSegment(StartOf(choices, i), choices[i].duration, choices[i].speaker, i - 1)

ResultOf(choices, i) ==
    IF choices[i].kind.status = "failed"
    THEN create_failed_segment_result(SegmentOf(choices, i), choices[i].kind.error)
    ELSE SuccessResult(SegmentOf(choices, i), choices[i].kind.text,
                       choices[i].kind.language, choices[i].kind.confidence)

\* The state after the processing loop has returned its results.  Profiles
\* and alignment only compare speaker labels: the first result is SPEAKER_00's.
AggregateInit ==
    /\ OverlapIdle
    /\ consensus_samples = DefaultConsensusSamples
    /\ min_language_confidence \in {FallbackConfidence, DefaultMinConfidence}
    /\ auto_detect = TRUE
    /\ detector_confidences = {}
    /\ detector_languages = {}
    /\ transcriber_languages = {}
    /\ \E n \in 0..MaxResults : \E choices \in [1..n -> ResultChoices] :
          /\ n > 0 => choices[1].speaker = "SPEAKER_00"
          /\ segments = [i \in 1..n |-> SegmentOf(choices, i)]
          /\ segment_results = [i \in 1..n |-> ResultOf(choices, i)]
    /\ audio_len = LastEnd(segments)
    /\ seg_i = Len(segments) + 1
    /\ sp_pc = "returned"
    /\ attempt = 0
    /\ language_detections = <<>>
    /\ final = NoConsensus
    /\ oracle_log = <<>>
    /\ temp_files = {i \in 1..Len(segment_results) :
                        segment_results[i].processing_status = "success"}
    /\ disk_files = temp_files
    /\ speaker_languages = <<>>
    /\ segment_weights = <<>>
    /\ aligned_segments = <<>>
    /\ accuracy_metrics = <<>>
    /\ ag_pc = "results"
    /\ DiarizeIdle
    /\ PipelineIdle
    /\ CallsIdle
    /\ QueueIdle

\* process_multilingual_audio, step 4:
\* speaker_language_analysis = self._determine_speaker_languages(segment_results)
DetermineSpeakerLanguages ==
    /\ ag_pc = "results"
    /\ speaker_languages' = determine_speaker_languages(segment_results)
    /\ segment_weights' = SegmentWeights(segment_results)
    /\ ag_pc' = "aggregated"
    /\ UNCHANGED <<aligned_segments, accuracy_metrics>>
    /\ UNCHANGED or_vars
    /\ UNCHANGED sp_vars
    /\ UNCHANGED dz_vars
    /\ UNCHANGED pl_vars
    /\ UNCHANGED ex_vars

\* process_multilingual_audio, step 5:
\* final_segments = self._create_final_aligned_segments(segment_results, ...)
CreateFinalAligned ==
    /\ ag_pc = "aggregated"
    /\ aligned_segments' = create_final_aligned_segments(segment_results,
                               speaker_languages, min_language_confidence)
    /\ ag_pc' = "aligned"
    /\ UNCHANGED <<speaker_languages, segment_weights, accuracy_metrics>>
    /\ UNCHANGED or_vars
    /\ UNCHANGED sp_vars
    /\ UNCHANGED dz_vars
    /\ UNCHANGED pl_vars
    /\ UNCHANGED ex_vars

\* Accuracy metrics: rates and the estimate are integers in units of
\* 1/AccOne (the rates of 1, the estimate of one percent); a text quality is
\* in units of 1/(AccOne \div 3) words per second.
AccOne == 2160

\* len(result.get('text', '').split()) / result['duration']
WordsPerSecond(result) ==
    (result.text.words * TicksPerSecond * (AccOne \div 3)) \div result.duration

\* The results whose words_per_second is appended to text_qualities.
Qualified(results) ==
    {i \in 1..Len(results) :
        results[i].processing_status = "success" /\ results[i].duration > 0}

RECURSIVE SumQuality(_, _)
SumQuality(results, S) ==
    IF S = {} THEN 0
    ELSE LET i == CHOOSE j \in S : TRUE
         IN WordsPerSecond(results[i]) + SumQuality(results, S \ {i})

\* The estimate capped at 100 percent.
CapAccuracyAtHundred(estimated_accuracy) == Min(estimated_accuracy, 100 * AccOne)

\* min(estimated_accuracy, 99.0)
CapAccuracy(estimated_accuracy) == Min(estimated_accuracy, 99 * AccOne)

\* _calculate_accuracy_metrics
calculate_accuracy_metrics(results, minConf) ==
    LET total_segments == Len(results)
        successful_segments ==
            Cardinality({i \in 1..Len(results) : results[i].processing_status = "success"})
        high_confidence_segments ==
            Cardinality({i \in 1..Len(results) : results[i].language_confidence >= minConf})
        avg_text_quality ==
            IF Qualified(results) # {}
            THEN SumQuality(results, Qualified(results)) \div Cardinality(Qualified(results))
            ELSE 0
        success_rate ==
            IF total_segments > 0 THEN (successful_segments * AccOne) \div total_segments ELSE 0
        confidence_rate ==
            IF total_segments > 0 THEN (high_confidence_segments * AccOne) \div total_segments
            ELSE 0
        \* min(avg_text_quality / 3.0, 1.0), in units of 1/AccOne
        text_quality_score == Min(avg_text_quality, AccOne)
        estimated_accuracy ==
            ((success_rate * 4 + confidence_rate * 4 + text_quality_score * 2) * 100) \div 10
    IN [total_segments |-> total_segments,
        successful_segments |-> successful_segments,
        failed_segments |-> total_segments - successful_segments,
        success_rate |-> success_rate * 100,
        high_confidence_segments |-> high_confidence_segments,
        high_confidence_rate |-> confidence_rate * 100,
        average_text_quality |-> avg_text_quality,
        estimated_accuracy |-> CapAccuracy(estimated_accuracy)]

\* process_multilingual_audio:
\* accuracy_metrics = self._calculate_accuracy_metrics(segment_results, aligned_segments)
CalculateAccuracy ==
    /\ ag_pc = "aligned"
    /\ accuracy_metrics' = calculate_accuracy_metrics(segment_results,
                                                      min_language_confidence)
    /\ ag_pc' = "measured"
    /\ UNCHANGED <<speaker_languages, segment_weights, aligned_segments>>
    /\ UNCHANGED or_vars
    /\ UNCHANGED sp_vars
    /\ UNCHANGED dz_vars
    /\ UNCHANGED pl_vars
    /\ UNCHANGED ex_vars

AggregateNext == DetermineSpeakerLanguages \/ CreateFinalAligned \/ CalculateAccuracy

SpecAggregate == AggregateInit /\ [][AggregateNext]_vars

\* process_multilingual_audio from step 3 to its finally.
RunNext ==
    \/ AudioLoadRaises
    \/ SliceTooShort
    \/ MkstempRaises
    \/ SliceWriteRaises
    \/ SliceSaved
    \/ DetectOk
    \/ DetectRaises
    \/ Consensus
    \/ TranscribeOk
    \/ TranscribeRaises
    \/ KnownTranscribeOk
    \/ KnownTranscribeRaises
    \/ LoopReturns
    \/ DetermineSpeakerLanguages
    \/ CreateFinalAligned
    \/ CalculateAccuracy
    \/ CleanupTempFiles

\* Runs on both paths with the defaults and a detector that is confident
\* whenever it answers.
RunInit ==
    /\ OverlapIdle
    /\ consensus_samples = DefaultConsensusSamples
    /\ min_language_confidence = DefaultMinConfidence
    /\ auto_detect \in BOOLEAN
    /\ detector_confidences = {1080}
    /\ detector_languages = LANGUAGES
    /\ transcriber_languages = OracleLanguages
    /\ segments \in CleanLists(MaxCleanSegs)
    /\ audio_len \in AudioLens(segments)
    /\ SegmentsStart
    /\ AggregateIdle
    /\ DiarizeIdle
    /\ PipelineIdle
    /\ CallsIdle
    /\ QueueIdle

SpecRun == RunInit /\ [][RunNext]_vars

\* ------------------------------------------------------------------------
\* Speaker diarization: SpeechBrainEngine.diarize_audio
\* ------------------------------------------------------------------------
\* Diarization times are integers in quarter seconds ("blocks" of 4000
\* samples).  The audio is known by the mean power of each of its blocks, in
\* units of ENERGY_THRESHOLD; a file is taken to peak at 0.95 already, so the
\* normalisation of _preprocess_audio leaves the powers as they are.
BlocksPerSecond == 4
SamplesPerBlock == 4000
SEGMENT_LENGTH == 6                 \* 1.5 s
SEGMENT_SHIFT == 2                  \* 0.5 s
MIN_DURATION == 4                   \* 1.0 s
ENERGY_THRESHOLD == 1
SpeechPower == 100                  \* a mean square of 0.01
MinSegmentTenths == 12              \* MIN_SEGMENT_DURATION = 0.3 s, in tenths of a block
PostMergeGapTenths == 8             \* 0.2 s
EnergyMergeGap == 2                 \* 0.5 s
EnergyWindow == 2                   \* window_size, 0.5 s
EnergyHop == 1                      \* hop_size, 0.25 s
DefaultMaxSpeakers == 10
MaxBlocks == 12                     \* the audio has at most MaxBlocks blocks
MaxNumSpeakers == 3                 \* num_speakers ranges over None, 1..MaxNumSpeakers

NoneSpeakers == 0                   \* num_speakers is None

Abs(x) == IF x >= 0 THEN x ELSE 0 - x

\* f"SPEAKER_{current_speaker:02d}"
SpeakerLabel(k) ==
    CASE k = 0 -> "SPEAKER_00"
      [] k = 1 -> "SPEAKER_01"
      [] k = 2 -> "SPEAKER_02"
      [] k = 3 -> "SPEAKER_03"
      [] OTHER -> "SPEAKER_04"

\* f"SPEAKER_{current_speaker % 2}"
EnergyLabel(current_speaker) ==
    IF current_speaker % 2 = 0 THEN "SPEAKER_0" ELSE "SPEAKER_1"

RECURSIVE SumPower(_, _, _)
SumPower(a, lo, hi) ==
    IF lo > hi THEN 0 ELSE a[lo] + SumPower(a, lo + 1, hi)

\* _preprocess_audio: a file shorter than MIN_DURATION is padded with zeros.
PadAudio(a) ==
    IF Len(a) < MIN_DURATION
    THEN a \o [i \in 1..(MIN_DURATION - Len(a)) |-> 0]
    ELSE a

\* range(0, len(audio_data) - frame_samples + 1, shift_samples)
NumFrames(a) ==
    IF Len(a) < SEGMENT_LENGTH THEN 0
    ELSE (Len(a) - SEGMENT_LENGTH) \div SEGMENT_SHIFT + 1

\* timestamps[f], for the f-th frame (1-based)
Timestamp(f) == (f - 1) * SEGMENT_SHIFT

\* _detect_voice_activity: np.mean(audio_frame ** 2) > self.ENERGY_THRESHOLD
HasVoice(a, f) ==
    SumPower(a, Timestamp(f) + 1, Timestamp(f) + SEGMENT_LENGTH)
        > SEGMENT_LENGTH * ENERGY_THRESHOLD

\* The list voice_activity of _extract_embeddings.
VoiceActivity(a) == [f \in 1..NumFrames(a) |-> HasVoice(a, f)]

Voiced(va) == {f \in 1..Len(va) : va[f]}

\* _estimate_speakers: the cluster counts the silhouette search can return.
EstimateSpeakers(nvoiced, maxSpeakers) ==
    IF nvoiced < 4 THEN {1}
    ELSE 1..Max(1, Min(maxSpeakers, nvoiced \div 2))

\* voiced_indices[np.argmin(distances)]: the nearest voiced frame, the lower
\* one of two at the same distance.
Nearest(voiced, i) ==
    CHOOSE j \in voiced :
        \A k \in voiced :
            \/ Abs(j - i) < Abs(k - i)
            \/ (Abs(j - i) = Abs(k - i) /\ j <= k)

\* _fill_nonvoiced_labels
fill_nonvoiced_labels(labels) ==
    LET voiced_indices == {i \in 1..Len(labels) : labels[i] >= 0}
    IN IF voiced_indices = {}
       THEN [i \in 1..Len(labels) |-> 0]
       ELSE [i \in 1..Len(labels) |->
                IF labels[i] = -1 THEN labels[Nearest(voiced_indices, i)] ELSE labels[i]]

\* "Ensure consecutive numbering": np.unique sorts the labels in use.
ConsecutiveNumbering(labels) ==
    LET unique_labels == {labels[i] : i \in {j \in 1..Len(labels) : labels[j] >= 0}}
    IN [i \in 1..Len(labels) |->
           IF labels[i] >= 0
           THEN Cardinality({u \in unique_labels : u < labels[i]})
           ELSE labels[i]]

\* "Map labels back to all frames" and what follows it.
MapBack(va, voiced_labels) ==
    ConsecutiveNumbering(fill_nonvoiced_labels(
        [i \in 1..Len(va) |-> IF va[i] THEN voiced_labels[i] ELSE -1]))

\* np.zeros(len(embeddings), dtype=int)
Zeros(n) == [i \in 1..n |-> 0]

\* What AgglomerativeClustering(n_clusters).fit_predict can return on the
\* voiced frames: every labelling that uses each of the n_clusters labels.
Clusterings(voiced, n_clusters) ==
    {vl \in [voiced -> 0..(n_clusters - 1)] :
        \A c \in 0..(n_clusters - 1) : \E f \in voiced : vl[f] = c}

\* The arrays _perform_clustering can return when nothing raises.
perform_clustering(va, numSpeakers, maxSpeakers) ==
    LET voiced == Voiced(va)
        counts == IF numSpeakers # NoneSpeakers THEN {numSpeakers}
                  ELSE EstimateSpeakers(Cardinality(voiced), maxSpeakers)
    IN IF voiced = {}
       THEN {Zeros(Len(va))}
       ELSE UNION {IF n_clusters = 1 \/ Cardinality(voiced) < n_clusters
                   THEN {MapBack(va, [f \in voiced |-> 0])}
                   ELSE {MapBack(va, vl) : vl \in Clusterings(voiced, n_clusters)} :
                   n_clusters \in counts}

DiarSegment(s, e, sp) == [start |-> s, end |-> e, speaker |-> sp, duration |-> e - s]

\* _create_segments: the loop over the labels from position i on.
RECURSIVE CreateSegmentsLoop(_, _, _, _, _)
CreateSegmentsLoop(labels, i, current_speaker, segment_start, segs) ==
    IF i > Len(labels)
    THEN Append(segs, DiarSegment(segment_start,
                                  Timestamp(Len(labels)) + SEGMENT_LENGTH,
                                  SpeakerLabel(current_speaker)))
    ELSE IF labels[i] # current_speaker
    THEN CreateSegmentsLoop(labels, i + 1, labels[i], Timestamp(i),
             Append(segs, DiarSegment(segment_start,
                                      Timestamp(i - 1) + SEGMENT_LENGTH,
                                      SpeakerLabel(current_speaker))))
    ELSE CreateSegmentsLoop(labels, i + 1, current_speaker, segment_start, segs)

\* _create_segments
create_segments(labels) ==
    IF Len(labels) = 0 THEN <<>>
    ELSE CreateSegmentsLoop(labels, 2, labels[1], Timestamp(1), <<>>)

\* segments.sort(key=lambda x: x['duration'], reverse=True): a stable sort.
DurationRank(segs, k) ==
    Cardinality({j \in 1..Len(segs) :
        \/ segs[j].duration > segs[k].duration
        \/ (segs[j].duration = segs[k].duration /\ j < k)}) + 1

ByDurationDescending(segs) ==
    [i \in 1..Len(segs) |-> segs[CHOOSE k \in 1..Len(segs) : DurationRank(segs, k) = i]]

\* _postprocess_segments: "Merge consecutive segments from same speaker"
RECURSIVE PostMerge(_, _, _)
PostMerge(filtered, i, merged) ==
    IF i > Len(filtered) THEN merged
    ELSE LET segment == filtered[i]
             n == Len(merged)
         IN IF /\ n > 0
               /\ merged[n].speaker = segment.speaker
               /\ 10 * Abs(merged[n].end - segment.start) < PostMergeGapTenths
            THEN PostMerge(filtered, i + 1,
                     [merged EXCEPT ![n] = DiarSegment(merged[n].start, segment.end,
                                                       merged[n].speaker)])
            ELSE PostMerge(filtered, i + 1, Append(merged, segment))

\* _postprocess_segments
postprocess_segments(segs) ==
    IF Len(segs) = 0 THEN segs
    ELSE LET kept == SelectSeq(segs, LAMBDA seg : 10 * seg.duration >= MinSegmentTenths)
             filtered_segments ==
                 IF Len(kept) = 0
                 THEN SubSeq(ByDurationDescending(segs), 1, Max(1, Len(segs) \div 2))
                 ELSE kept
         IN PostMerge(filtered_segments, 1, <<>>)

\* sorted(set(seg['speaker'] for seg in segments))
SpeakersOf(segs) == {segs[i].speaker : i \in 1..Len(segs)}

\* energy > np.mean(audio_data ** 2), for the window that starts at block i
\* (0-based): a sum of squares against a mean of squares.
Energetic(a, i) ==
    SamplesPerBlock * SumPower(a, i + 1, i + EnergyWindow) * Len(a)
        > SumPower(a, 1, Len(a))

\* _energy_based_diarization: the loop over
\* range(0, len(audio_data) - window_size, hop_size) from window i on.
RECURSIVE EnergyLoop(_, _, _, _)
EnergyLoop(a, i, current_speaker, segs) ==
    IF i >= Len(a) - EnergyWindow THEN segs
    ELSE IF Energetic(a, i)
    THEN EnergyLoop(a, i + EnergyHop, current_speaker + 1,
             Append(segs, DiarSegment(i, i + EnergyWindow, EnergyLabel(current_speaker))))
    ELSE EnergyLoop(a, i + EnergyHop, current_speaker, segs)

\* _merge_segments: the loop over segments[1:].
RECURSIVE MergeLoop(_, _, _, _)
MergeLoop(segs, i, current_seg, merged) ==
    IF i > Len(segs) THEN Append(merged, current_seg)
    ELSE LET seg == segs[i]
         IN IF /\ seg.speaker = current_seg.speaker
               /\ seg.start - current_seg.end < EnergyMergeGap
            THEN MergeLoop(segs, i + 1,
                           DiarSegment(current_seg.start, seg.end, current_seg.speaker),
                           merged)
            ELSE MergeLoop(segs, i + 1, seg, Append(merged, current_seg))

\* _merge_segments
merge_segments(segs) ==
    IF Len(segs) = 0 THEN <<>> ELSE MergeLoop(segs, 2, segs[1], <<>>)

\* The dict a diarization returns; clustering_failed remembers that
\* "Clustering failed" was printed on the way.
DiarizationResult(segs, engine, failed) ==
    [segments |-> segs, speakers |-> SpeakersOf(segs), engine |-> engine,
     clustering_failed |-> failed]

\* _energy_based_diarization
energy_based_diarization(a) ==
    DiarizationResult(merge_segments(EnergyLoop(a, 0, 0, <<>>)), "energy_based_fallback",
                      FALSE)

\* The audio files: every pattern of silent and spoken blocks.
\* The values of max_speakers of a call that leaves the estimate to the
\* engine; a call with num_speakers keeps the default, which it never reads.
MaxSpeakersValues == {1, 2, DefaultMaxSpeakers}

Audios == UNION {[1..n -> {0, SpeechPower}] : n \in 1..MaxBlocks}

DiarizeInit ==
    /\ OverlapIdle
    /\ SegmentsIdle
    /\ AggregateIdle
    /\ audio \in Audios
    /\ embedding_model \in BOOLEAN
    /\ \/ /\ num_speakers \in 1..MaxNumSpeakers
          /\ max_speakers = DefaultMaxSpeakers
       \/ /\ num_speakers = NoneSpeakers
          /\ max_speakers \in MaxSpeakersValues
    /\ voice_activity = <<>>
    /\ cluster_labels = <<>>
    /\ diarization = NoDiarization
    /\ dz_pc = "start"
    /\ PipelineIdle
    /\ CallsIdle
    /\ QueueIdle

DiarizeFrame ==
    /\ UNCHANGED <<audio, embedding_model, num_speakers, max_speakers>>
    /\ UNCHANGED or_vars
    /\ UNCHANGED sp_vars
    /\ UNCHANGED ag_vars
    /\ UNCHANGED pl_vars
    /\ UNCHANGED ex_vars

\* diarize_audio without embedding model: "Use energy-based fallback"
EnergyOnly ==
    /\ dz_pc = "start"
    /\ ~embedding_model
    /\ diarization' = energy_based_diarization(audio)
    /\ dz_pc' = "done"
    /\ UNCHANGED <<voice_activity, cluster_labels>>
    /\ DiarizeFrame

\* _preprocess_audio and _extract_embeddings return.
ExtractEmbeddings ==
    /\ dz_pc = "start"
    /\ embedding_model
    /\ NumFrames(PadAudio(audio)) > 0
    /\ voice_activity' = VoiceActivity(PadAudio(audio))
    /\ dz_pc' = "embedded"
    /\ UNCHANGED <<cluster_labels, diarization>>
    /\ DiarizeFrame

\* _preprocess_audio or _extract_embeddings raises (the latter whenever the
\* file yields no frame): diarize_audio's except returns the fallback.
EmbeddingPathRaises ==
    /\ dz_pc = "start"
    /\ embedding_model
    /\ diarization' = energy_based_diarization(audio)
    /\ dz_pc' = "done"
    /\ UNCHANGED <<voice_activity, cluster_labels>>
    /\ DiarizeFrame

\* _perform_clustering returns.
PerformClustering ==
    /\ dz_pc = "embedded"
    /\ cluster_labels' \in perform_clustering(voice_activity, num_speakers,
                                              max_speakers)
    /\ dz_pc' = "clustered"
    /\ UNCHANGED <<voice_activity, diarization>>
    /\ DiarizeFrame

\* Something raises inside _perform_clustering: "Clustering failed".
ClusteringFails ==
    /\ dz_pc = "embedded"
    /\ Voiced(voice_activity) # {}
    /\ cluster_labels' = Zeros(Len(voice_activity))
    /\ dz_pc' = "clustering_failed"
    /\ UNCHANGED <<voice_activity, diarization>>
    /\ DiarizeFrame

\* _create_segments, _postprocess_segments and the returned dict.
CreateSegments ==
    /\ dz_pc \in {"clustered", "clustering_failed"}
    /\ diarization' =
           DiarizationResult(postprocess_segments(create_segments(cluster_labels)),
                             "speechbrain_fixed", dz_pc = "clustering_failed")
    /\ dz_pc' = "done"
    /\ UNCHANGED <<voice_activity, cluster_labels>>
    /\ DiarizeFrame

DiarizeNext ==
    \/ EnergyOnly
    \/ ExtractEmbeddings
    \/ EmbeddingPathRaises
    \/ PerformClustering
    \/ ClusteringFails
    \/ CreateSegments

SpecDiarize == DiarizeInit /\ [][DiarizeNext]_vars

\* ------------------------------------------------------------------------
\* A call of process_multilingual_audio on a ten-second clip
\* ------------------------------------------------------------------------
\* The clip of the scenario: ten seconds, and its middle.
ClipBlocks == 10 * BlocksPerSecond
HalfClipBlocks == ClipBlocks \div 2

\* The path check that never raises.
NeverRaisesFileNotFound(exists) == FALSE

\* if not audio_path.exists(): raise FileNotFoundError(...)
RaisesFileNotFound(exists) == ~exists

\* Seconds of the diarizer as ticks of the pipeline.
ToTicks(blocks) == (blocks * TicksPerSecond) \div BlocksPerSecond

\* diarization_results['segments'], as _create_overlap_free_segments reads it.
DiarizedSegments(segs) ==
    [i \in 1..Len(segs) |->
        RawSegment(ToTicks(segs[i].start), ToTicks(segs[i].end), segs[i].speaker)]

\* A clean split: the frames that lie in the first half of the clip carry one
\* label, those in the second half the other, and the frames across the
\* middle are shared out at some point between them.
CleanSplits(voiced) ==
    {vl \in Clusterings(voiced, 2) :
        /\ \A f \in voiced :
              /\ Timestamp(f) + SEGMENT_LENGTH <= HalfClipBlocks => vl[f] = vl[1]
              /\ Timestamp(f) >= HalfClipBlocks => vl[f] # vl[1]
        /\ \A f, g \in voiced : (f < g /\ vl[f] # vl[1]) => vl[g] # vl[1]}

\* The constructor's defaults, a clip of ten seconds of speech, and oracles
\* that report one language throughout.
PipelineInit ==
    /\ path_exists \in BOOLEAN
    /\ preprocessing \in {"no", "requested"}
    /\ run_pc = "called"
    /\ audio = [b \in 1..ClipBlocks |-> SpeechPower]
    /\ embedding_model = TRUE
    /\ num_speakers \in {NoneSpeakers, 2}
    /\ max_speakers = DefaultMaxSpeakers
    /\ voice_activity = <<>>
    /\ cluster_labels = <<>>
    /\ diarization = NoDiarization
    /\ dz_pc = "off"
    /\ min_segment_duration = TicksPerSecond \div 2
    /\ overlap_threshold = TicksPerSecond \div 10
    /\ raw_segments = <<>>
    /\ raw_before = <<>>
    /\ clean_segments = <<>>
    /\ clean_again = <<>>
    /\ or_pc = "off"
    /\ consensus_samples = DefaultConsensusSamples
    /\ min_language_confidence = DefaultMinConfidence
    /\ auto_detect = TRUE
    /\ detector_confidences = {480, 1080}
    /\ \E spoken \in LANGUAGES :
          /\ detector_languages = {spoken}
          /\ transcriber_languages = {spoken}
    /\ segments = <<>>
    /\ audio_len = 0
    /\ seg_i = 1
    /\ sp_pc = "off"
    /\ attempt = 0
    /\ language_detections = <<>>
    /\ final = NoConsensus
    /\ segment_results = <<>>
    /\ oracle_log = <<>>
    /\ temp_files = {}
    /\ disk_files = {}
    /\ AggregateIdle
    /\ CallsIdle
    /\ QueueIdle

\* The path does not exist: FileNotFoundError, raised ahead of the try.
PathMissing ==
    /\ run_pc = "called"
    /\ RaisesFileNotFound(path_exists)
    /\ run_pc' = "file_not_found"
    /\ UNCHANGED <<path_exists, preprocessing>>
    /\ UNCHANGED or_vars
    /\ UNCHANGED sp_vars
    /\ UNCHANGED ag_vars
    /\ UNCHANGED dz_vars
    /\ UNCHANGED ex_vars

\* Step 1 (preprocessing, if asked for: it registers the file it wrote, or
\* fails and hands back the original path) and the call of diarize_audio.
StartRun ==
    /\ run_pc = "called"
    /\ ~RaisesFileNotFound(path_exists)
    /\ run_pc' = "running"
    /\ \/ /\ preprocessing = "no"
          /\ UNCHANGED <<preprocessing, temp_files, disk_files>>
       \/ /\ preprocessing = "requested"
          /\ preprocessing' = "applied"
          /\ temp_files' = temp_files \cup {0}
          /\ disk_files' = disk_files \cup {0}
       \/ /\ preprocessing = "requested"
          /\ preprocessing' = "failed"
          /\ UNCHANGED <<temp_files, disk_files>>
    /\ dz_pc' = "start"
    /\ UNCHANGED path_exists
    /\ UNCHANGED <<audio, embedding_model, num_speakers, max_speakers, voice_activity,
                   cluster_labels, diarization>>
    /\ LoopFrame
    /\ UNCHANGED <<seg_i, sp_pc, attempt, language_detections, final, segment_results,
                   oracle_log>>
    /\ UNCHANGED or_vars
    /\ UNCHANGED ag_vars
    /\ UNCHANGED ex_vars

\* _perform_clustering returns a clean split of the frames in two speakers.
ClusterCleanSplit ==
    /\ dz_pc = "embedded"
    /\ cluster_labels' \in
           {MapBack(voice_activity, vl) : vl \in CleanSplits(Voiced(voice_activity))}
    /\ dz_pc' = "clustered"
    /\ UNCHANGED <<voice_activity, diarization>>
    /\ DiarizeFrame

\* diarize_audio has returned: its segments are the input of step 2.
ReceiveDiarization ==
    /\ run_pc = "running"
    /\ dz_pc = "done"
    /\ or_pc = "off"
    /\ raw_segments' = DiarizedSegments(diarization.segments)
    /\ raw_before' = raw_segments'
    /\ or_pc' = "input"
    /\ UNCHANGED <<min_segment_duration, overlap_threshold, clean_segments, clean_again>>
    /\ UNCHANGED sp_vars
    /\ UNCHANGED ag_vars
    /\ UNCHANGED dz_vars
    /\ UNCHANGED pl_vars
    /\ UNCHANGED ex_vars

\* Step 3 begins: the clean segments and the audio go to the loop.
StartSegmentLoop ==
    /\ run_pc = "running"
    /\ or_pc = "cleaned"
    /\ sp_pc = "off"
    /\ segments' = clean_segments
    /\ audio_len' = ToTicks(Len(audio))
    /\ sp_pc' = "loop"
    /\ UNCHANGED <<consensus_samples, min_language_confidence, auto_detect,
                   detector_confidences, detector_languages, transcriber_languages,
                   seg_i, attempt, language_detections, final, segment_results,
                   oracle_log, temp_files, disk_files>>
    /\ UNCHANGED or_vars
    /\ UNCHANGED ag_vars
    /\ UNCHANGED dz_vars
    /\ UNCHANGED pl_vars
    /\ UNCHANGED ex_vars

PipelineNext ==
    \/ PathMissing
    \/ StartRun
    \/ ExtractEmbeddings
    \/ ClusterCleanSplit
    \/ CreateSegments
    \/ ReceiveDiarization
    \/ CreateOverlapFree
    \/ StartSegmentLoop
    \/ SliceSaved
    \/ DetectOk
    \/ Consensus
    \/ TranscribeOk
    \/ LoopReturns
    \/ DetermineSpeakerLanguages
    \/ CreateFinalAligned
    \/ CalculateAccuracy
    \/ CleanupTempFiles

SpecPipeline == PipelineInit /\ [][PipelineNext]_vars

\* ------------------------------------------------------------------------
\* Invocations of process_multilingual_audio that overlap on one instance
\* ------------------------------------------------------------------------
\* self.temp_files is one list of the instance (set in __init__): every
\* invocation appends the slices it saves to it, and the _cleanup_temp_files
\* in every invocation's finally unlinks and clears all of it.
MaxCalls == 2                       \* invocations that can overlap
MaxFiles == 4                       \* slice files saved in all

Calls == 1..MaxCalls

CallsInit ==
    /\ OverlapIdle
    /\ SegmentsIdle
    /\ AggregateIdle
    /\ DiarizeIdle
    /\ PipelineIdle
    /\ QueueIdle
    /\ call_pc = [c \in Calls |-> "idle"]
    /\ call_slice = [c \in Calls |-> 0]
    /\ next_file = 1

\* What an invocation leaves alone.
CallFrame ==
    /\ LoopFrame
    /\ UNCHANGED <<seg_i, sp_pc, attempt, language_detections, final, segment_results,
                   oracle_log>>
    /\ UNCHANGED or_vars
    /\ UNCHANGED ag_vars
    /\ UNCHANGED dz_vars
    /\ UNCHANGED pl_vars
    /\ UNCHANGED qu_vars

\* A worker calls process_multilingual_audio and reaches the segment loop.
InvokeCall ==
    \E c \in Calls :
        /\ call_pc[c] \in {"idle", "returned"}
        /\ call_pc' = [call_pc EXCEPT ![c] = "loop"]
        /\ UNCHANGED <<call_slice, next_file, temp_files, disk_files>>
        /\ CallFrame

\* mkstemp, sf.write and self.temp_files.append(temp_path) for one segment.
CallSavesSlice ==
    \E c \in Calls :
        /\ call_pc[c] = "loop"
        /\ next_file <= MaxFiles
        /\ disk_files' = disk_files \cup {next_file}
        /\ temp_files' = temp_files \cup {next_file}
        /\ call_slice' = [call_slice EXCEPT ![c] = next_file]
        /\ next_file' = next_file + 1
        /\ call_pc' = [call_pc EXCEPT ![c] = "slice_saved"]
        /\ CallFrame

\* The oracles have read the slice (or failed on a missing file): the
\* invocation is done with it and goes on to the next segment.
CallProcessesSlice ==
    \E c \in Calls :
        /\ call_pc[c] = "slice_saved"
        /\ call_slice' = [call_slice EXCEPT ![c] = 0]
        /\ call_pc' = [call_pc EXCEPT ![c] = "loop"]
        /\ UNCHANGED <<next_file, temp_files, disk_files>>
        /\ CallFrame

\* The loop is over: the finally runs _cleanup_temp_files and the call returns.
CallReturns ==
    \E c \in Calls :
        /\ call_pc[c] = "loop"
        /\ disk_files' = disk_files \ temp_files
        /\ temp_files' = {}
        /\ call_pc' = [call_pc EXCEPT ![c] = "returned"]
        /\ UNCHANGED <<call_slice, next_file>>
        /\ CallFrame

CallsNext ==
    \/ InvokeCall
    \/ CallSavesSlice
    \/ CallProcessesSlice
    \/ CallReturns

SpecCalls == CallsInit /\ [][CallsNext]_vars

\* ------------------------------------------------------------------------
\* The job queue: AudioQueueManager, upload_audio, process_audio_background,
\* periodic_queue_cleanup and lifespan
\* ------------------------------------------------------------------------
\* The handlers are coroutines of one event loop and the queue manager's
\* methods never suspend (their database calls are synchronous), so a handler
\* runs to its end before another starts; every database commit of a handler
\* is a state of its own, with "pending" holding what the handler does next.
MaxJobs == 3                        \* uploads in all

Jobs == 1..MaxJobs

\* max_concurrent: 1 in lifespan, and a larger limit.
MaxConcurrentValues == {1, 2}

Processing(st) == {e \in Jobs : st[e] = "PROCESSING"}
Queued(st) == {e \in Jobs : st[e] = "QUEUED"}

\* The check that admits a job when the limit is already reached.
CanProcessNowInclusive(st, limit) == Cardinality(Processing(st)) <= limit

\* can_process_now: processing_count < self.max_concurrent
CanProcessNow(st, limit) == Cardinality(Processing(st)) < limit

\* get_next_queued_item: the QUEUED row created first.
NextQueuedItem(st) == CHOOSE e \in Queued(st) : \A d \in Queued(st) : e <= d

QueueInit ==
    /\ OverlapIdle
    /\ SegmentsIdle
    /\ AggregateIdle
    /\ DiarizeIdle
    /\ PipelineIdle
    /\ CallsIdle
    /\ max_concurrent \in MaxConcurrentValues
    /\ status = [e \in Jobs |-> "none"]
    /\ task = [e \in Jobs |-> FALSE]
    /\ expired = [e \in Jobs |-> FALSE]
    /\ file_exists = [e \in Jobs |-> FALSE]
    /\ pending = "none"
    /\ starting = 0

QueueFrame ==
    /\ UNCHANGED max_concurrent
    /\ UNCHANGED or_vars
    /\ UNCHANGED sp_vars
    /\ UNCHANGED ag_vars
    /\ UNCHANGED dz_vars
    /\ UNCHANGED pl_vars
    /\ UNCHANGED cc_vars

\* upload_audio: the file is saved, add_to_queue commits a QUEUED row, and
\* start_next_if_available is called.
AddToQueue ==
    /\ pending = "none"
    /\ \E e \in Jobs :
          /\ status[e] = "none"
          /\ \A d \in Jobs : d < e => status[d] # "none"
          /\ status' = [status EXCEPT ![e] = "QUEUED"]
          /\ file_exists' = [file_exists EXCEPT ![e] = TRUE]
    /\ pending' = "start_next"
    /\ UNCHANGED <<task, expired, starting>>
    /\ QueueFrame

\* start_next_if_available, up to start_processing's commit of PROCESSING.
StartNextIfAvailable ==
    /\ pending = "start_next"
    /\ IF CanProcessNow(status, max_concurrent) /\ Queued(status) # {}
       THEN /\ status' = [status EXCEPT ![NextQueuedItem(status)] = "PROCESSING"]
            /\ expired' = [expired EXCEPT ![NextQueuedItem(status)] = FALSE]
            /\ starting' = NextQueuedItem(status)
            /\ pending' = "launch"
       ELSE /\ pending' = "none"
            /\ UNCHANGED <<status, expired, starting>>
    /\ UNCHANGED <<task, file_exists>>
    /\ QueueFrame

\* start_processing after its commit: the background task is created, or the
\* file is missing and fail_processing marks the row FAILED and calls
\* start_next_if_available.
LaunchTask ==
    /\ pending = "launch"
    /\ IF file_exists[starting]
       THEN /\ task' = [task EXCEPT ![starting] = TRUE]
            /\ pending' = "none"
            /\ UNCHANGED status
       ELSE /\ status' = [status EXCEPT ![starting] = "FAILED"]
            /\ pending' = "start_next"
            /\ UNCHANGED task
    /\ starting' = 0
    /\ UNCHANGED <<expired, file_exists>>
    /\ QueueFrame

\* process_audio_background ends well: complete_processing.
JobCompletes ==
    /\ pending = "none"
    /\ \E e \in Jobs :
          /\ task[e]
          /\ status' = [status EXCEPT ![e] = "COMPLETED"]
          /\ task' = [task EXCEPT ![e] = FALSE]
    /\ pending' = "start_next"
    /\ UNCHANGED <<expired, file_exists, starting>>
    /\ QueueFrame

\* process_audio_background catches an exception: fail_processing.
JobFails ==
    /\ pending = "none"
    /\ \E e \in Jobs :
          /\ task[e]
          /\ status' = [status EXCEPT ![e] = "FAILED"]
          /\ task' = [task EXCEPT ![e] = FALSE]
    /\ pending' = "start_next"
    /\ UNCHANGED <<expired, file_exists, starting>>
    /\ QueueFrame

\* Thirty minutes have passed since an entry started processing.
TimePasses ==
    /\ \E e \in Jobs :
          /\ status[e] = "PROCESSING"
          /\ ~expired[e]
          /\ expired' = [expired EXCEPT ![e] = TRUE]
    /\ UNCHANGED <<status, task, file_exists, pending, starting>>
    /\ QueueFrame

\* cleanup_expired_sessions with at least one expired session (with none it
\* changes nothing): they are marked FAILED, their tasks are left running,
\* and start_next_if_available is called once.
CleanupExpired ==
    /\ pending = "none"
    /\ \E e \in Jobs : status[e] = "PROCESSING" /\ expired[e]
    /\ status' = [e \in Jobs |->
                     IF status[e] = "PROCESSING" /\ expired[e] THEN "FAILED" ELSE status[e]]
    /\ pending' = "start_next"
    /\ UNCHANGED <<task, expired, file_exists, starting>>
    /\ QueueFrame

\* The server restarts: no task survives, and lifespan runs
\* recover_stuck_sessions, which marks every PROCESSING row FAILED.
Restart ==
    /\ \E e \in Jobs : status[e] # "none"
    /\ task' = [e \in Jobs |-> FALSE]
    /\ status' = [e \in Jobs |-> IF status[e] = "PROCESSING" THEN "FAILED" ELSE status[e]]
    /\ pending' = "none"
    /\ starting' = 0
    /\ UNCHANGED <<expired, file_exists>>
    /\ QueueFrame

\* The uploaded file of a waiting entry disappears.
FileLost ==
    /\ \E e \in Jobs :
          /\ status[e] = "QUEUED"
          /\ file_exists[e]
          /\ file_exists' = [file_exists EXCEPT ![e] = FALSE]
    /\ UNCHANGED <<status, task, expired, pending, starting>>
    /\ QueueFrame

QueueNext ==
    \/ AddToQueue
    \/ StartNextIfAvailable
    \/ LaunchTask
    \/ JobCompletes
    \/ JobFails
    \/ TimePasses
    \/ CleanupExpired
    \/ Restart
    \/ FileLost

SpecQueue == QueueInit /\ [][QueueNext]_vars

\* A running handler goes on, every started job ends, and the periodic
\* cleanup runs; uploads, restarts and lost files may or may not happen.
SpecQueueFair ==
    /\ QueueInit
    /\ [][QueueNext]_vars
    /\ WF_vars(StartNextIfAvailable)
    /\ WF_vars(LaunchTask)
    /\ WF_vars(JobCompletes \/ JobFails)
    /\ WF_vars(CleanupExpired)

\* ------------------------------------------------------------------------
\* Properties of Overlap Resolution
\* ------------------------------------------------------------------------
WellFormed(c) == \A i \in 1..Len(c) : c[i].start <= c[i].end
SortedByStart(c) == \A i \in 1..(Len(c) - 1) : c[i].start <= c[i + 1].start
NonOverlapping(c) == \A i \in 1..(Len(c) - 1) : c[i].end <= c[i + 1].start

\* C1: the list returned by _create_overlap_free_segments is sorted by start
\* time and pairwise non-overlapping (for consecutive a, b: a.start <= b.start
\* and a.end <= b.start), and every returned segment has start <= end.
C1_SortedNonOverlapping ==
    or_pc \in {"cleaned", "recleaned"} =>
        /\ WellFormed(clean_segments)
        /\ SortedByStart(clean_segments)
        /\ NonOverlapping(clean_segments)

\* C2: Overlap Resolution is idempotent: the call on its own output returns a
\* list equal to that output (segments, boundaries, speakers, segment_ids).
C2_Idempotent ==
    or_pc = "recleaned" => clean_again = clean_segments

\* ------------------------------------------------------------------------
\* Properties of segment-level processing
\* ------------------------------------------------------------------------
MaxConfidence(dets) ==
    CHOOSE c \in {dets[i].confidence : i \in 1..Len(dets)} :
        \A i \in 1..Len(dets) : dets[i].confidence <= c

\* C5: for every consensus_samples >= 1, odd or even: if one language appears
\* in strictly more than half of the attempts, the consensus is that language
\* with the mean confidence of the agreeing attempts; otherwise (an exact
\* half/half split included) it is the attempt with the highest confidence.
C5_StrictMajorityOrBest ==
    (sp_pc = "transcribe" /\ Len(language_detections) > 0) =>
        LET dets == language_detections
            majority == {l \in LANGUAGES : 2 * CountOf(dets, l) > consensus_samples}
        IN IF majority # {}
           THEN /\ final.language \in majority
                /\ final.confidence * CountOf(dets, final.language)
                       = SumConfidence(dets, final.language, 1)
           ELSE /\ final.confidence = MaxConfidence(dets)
                /\ \E i \in 1..Len(dets) :
                      /\ dets[i].language = final.language
                      /\ dets[i].confidence = final.confidence

\* C6: with consensus_samples = 3 and three successful detections of which
\* exactly two agree on a language, the consensus is that language, with the
\* mean of the two agreeing confidences, whatever the third attempt reports.
C6_TwoOfThreeWin ==
    (sp_pc = "transcribe" /\ consensus_samples = 3 /\ Len(language_detections) = 3) =>
        \A i, j, k \in 1..3 :
            (/\ i < j /\ k # i /\ k # j
             /\ language_detections[i].language = language_detections[j].language
             /\ language_detections[k].language # language_detections[i].language)
            => /\ final.language = language_detections[i].language
               /\ 2 * final.confidence =
                      language_detections[i].confidence + language_detections[j].confidence

\* de 0.8, de 0.9, en 0.95 gives de with 0.85.
C6_Witness ==
    /\ sp_pc = "transcribe"
    /\ consensus_samples = 3
    /\ language_detections = <<[language |-> "de", confidence |-> 960, attempt |-> 0],
                               [language |-> "de", confidence |-> 1080, attempt |-> 1],
                               [language |-> "en", confidence |-> 1140, attempt |-> 2]>>
    /\ final = [language |-> "de", confidence |-> 1020]

\* C7: if a detection attempt or the transcription raises while a segment is
\* processed, that segment's result is failed with the message retained, never
\* success; and the run produces a result for each segment.
C7_OracleRaiseFails ==
    /\ \A i \in 1..Len(segment_results) :
          (oracle_log[i].raised \cap {"detect", "transcribe"} # {}) =>
              /\ segment_results[i].processing_status = "failed"
              /\ segment_results[i].error # "none"
    /\ Len(segment_results) = seg_i - 1
    /\ \A i \in 1..Len(segment_results) :
          segment_results[i].segment_id = segments[i].segment_id

\* C8: a clean segment whose audio slice is shorter than 0.3 s yields a result
\* with processing_status = too_short and empty text, on both paths.
C8_TooShortStatus ==
    \A i \in 1..Len(segment_results) :
        (Max(0, Min(segments[i].end, audio_len) - Min(segments[i].start, audio_len))
            < MinSliceTicks) =>
            /\ segment_results[i].processing_status = "too_short"
            /\ segment_results[i].text = EmptyText

\* ------------------------------------------------------------------------
\* Properties of speaker aggregation and final alignment
\* ------------------------------------------------------------------------
\* C3: every segment the Final Aligner returns has a language that is not
\* null and a language_confidence in [0, 1], whatever the results (successful
\* or failed) and whether or not the segment's speaker has a profile; the
\* aligner returns one segment per result.
C3_LanguageDecided ==
    ag_pc = "aligned" =>
        /\ Len(aligned_segments) = Len(segment_results)
        /\ \A i \in 1..Len(aligned_segments) :
              /\ aligned_segments[i].language # None
              /\ aligned_segments[i].language \in LANGUAGES \cup {"unknown"}
              /\ aligned_segments[i].language_confidence >= 0
              /\ aligned_segments[i].language_confidence <= ConfOne

\* A failed segment of a speaker without a profile is aligned, to en / 0.5.
C3_Witness ==
    /\ ag_pc = "aligned"
    /\ \E i \in 1..Len(aligned_segments) :
          /\ aligned_segments[i].speaker \notin DOMAIN speaker_languages
          /\ aligned_segments[i].processing_status = "failed"
          /\ aligned_segments[i].language = "en"
          /\ aligned_segments[i].language_confidence = FallbackConfidence

\* The profile confidence the aligner reads for a speaker.
ProfileConfidence(speaker) ==
    IF speaker \in DOMAIN speaker_languages
    THEN speaker_languages[speaker].confidence ELSE 0

\* C4: each result is aligned by exactly one tier, in priority order: its own
\* language_confidence >= min_language_confidence gives its own language with
\* method segment_level; else the speaker's profile confidence >=
\* min_language_confidence gives the speaker's primary language with method
\* speaker_level; else en with confidence 0.5 and method fallback.
C4_ThreeTiers ==
    ag_pc = "aligned" =>
        \A j \in 1..Len(segment_results) :
            \E i \in 1..Len(aligned_segments) :
                LET r == segment_results[j]
                    a == aligned_segments[i]
                IN /\ a.start = r.start /\ a.end = r.end /\ a.speaker = r.speaker
                   /\ IF r.language_confidence >= min_language_confidence
                      THEN /\ a.language_assignment_method = "segment_level"
                           /\ a.language = r.language
                           /\ a.language_confidence = r.language_confidence
                      ELSE IF ProfileConfidence(r.speaker) >= min_language_confidence
                      THEN /\ a.language_assignment_method = "speaker_level"
                           /\ a.language = speaker_languages[r.speaker].language
                           /\ a.language_confidence = speaker_languages[r.speaker].confidence
                      ELSE /\ a.language_assignment_method = "fallback"
                           /\ a.language = "en"
                           /\ a.language_confidence = FallbackConfidence

\* A segment below the threshold takes its speaker's primary language, which
\* differs from its own, while the speaker's other segment keeps its own.
C4_Witness ==
    /\ ag_pc = "aligned"
    /\ \E i, j \in 1..Len(aligned_segments) :
          /\ aligned_segments[i].language_assignment_method = "speaker_level"
          /\ aligned_segments[i].language # aligned_segments[i].segment_language
          /\ aligned_segments[j].language_assignment_method = "segment_level"
          /\ aligned_segments[j].speaker = aligned_segments[i].speaker

\* C9: every speaker that occurs in the segment results has an entry in the
\* map speaker aggregation returns; a speaker with no result that is success
\* with confidence > 0 has the default entry en, 0, 0, 0.
C9_EverySpeakerHasProfile ==
    ag_pc \in {"aggregated", "aligned", "measured"} =>
        \A i \in 1..Len(segment_results) :
            LET speaker == segment_results[i].speaker
            IN /\ speaker \in DOMAIN speaker_languages
               /\ (\A j \in 1..Len(segment_results) :
                      segment_results[j].speaker = speaker => ~Analyzed(segment_results[j]))
                  => speaker_languages[speaker] = DefaultProfile

\* C10: the weight of an analyzed segment is 0.5 * language_confidence
\* + 0.3 * min(duration / 5 s, 1) + 0.2 * min(words_per_second, 1), with
\* words_per_second the word count of the text divided by the duration
\* (both sides multiplied by the duration).
C10_WeightFormula ==
    ag_pc \in {"aggregated", "aligned", "measured"} =>
        \A i \in DOMAIN segment_weights :
            LET r == segment_results[i]
            IN segment_weights[i] * r.duration =
                   ((r.language_confidence * (WeightOne \div 2)) \div ConfOne) * r.duration
                   + ((((3 * WeightOne) \div 10) * Min(r.duration, 5 * TicksPerSecond))
                          \div (5 * TicksPerSecond)) * r.duration
                   + ((2 * WeightOne) \div 10)
                         * Min(r.text.words * TicksPerSecond, r.duration)
\* The sum of the weights of the analyzed results at the positions in S.
RECURSIVE WeightSum(_)
WeightSum(S) ==
    IF S = {} THEN 0
    ELSE LET i == CHOOSE j \in S : TRUE
         IN segment_weights[i] + WeightSum(S \ {i})

\* The analyzed results of a speaker, and those of them in a language.
AnalyzedOf(speaker) ==
    {i \in DOMAIN segment_weights : segment_results[i].speaker = speaker}
AnalyzedIn(speaker, lang) ==
    {i \in AnalyzedOf(speaker) : segment_results[i].language = lang}

\* C11: for every speaker with an analyzed segment, the profile's primary
\* language has a summed weight that is maximal among the speaker's languages,
\* and the profile confidence is that sum divided by the speaker's total
\* weight (here rounded down to 1/ConfOne), a value in (0, 1].
C11_PrimaryIsHeaviest ==
    ag_pc \in {"aggregated", "aligned", "measured"} =>
        \A i \in DOMAIN segment_weights :
            LET speaker == segment_results[i].speaker
                profile == speaker_languages[speaker]
                primary == WeightSum(AnalyzedIn(speaker, profile.language))
                total == WeightSum(AnalyzedOf(speaker))
            IN /\ speaker \in DOMAIN speaker_languages
               /\ AnalyzedIn(speaker, profile.language) # {}
               /\ \A l \in OracleLanguages : WeightSum(AnalyzedIn(speaker, l)) <= primary
               /\ profile.confidence * total <= primary * ConfOne
               /\ primary * ConfOne < (profile.confidence + 1) * total
               /\ profile.confidence > 0
               /\ profile.confidence <= ConfOne

\* A speaker heard in two languages whose second, heavier one is the primary
\* language, with a share below 1.
C11_Witness ==
    /\ ag_pc = "aggregated"
    /\ Len(segment_results) = 2
    /\ DOMAIN segment_weights = {1, 2}
    /\ segment_results[1].speaker = segment_results[2].speaker
    /\ segment_results[1].language # segment_results[2].language
    /\ segment_weights[1] < segment_weights[2]
    /\ speaker_languages[segment_results[1].speaker].language = segment_results[2].language
    /\ speaker_languages[segment_results[1].speaker].confidence < ConfOne
\* ------------------------------------------------------------------------
\* Properties of the accuracy metrics
\* ------------------------------------------------------------------------
SuccessfulResults ==
    {i \in 1..Len(segment_results) : segment_results[i].processing_status = "success"}
HighConfidenceResults ==
    {i \in 1..Len(segment_results) :
        segment_results[i].language_confidence >= min_language_confidence}

\* C12: estimated_accuracy = min(99.0, 100 * (0.4 * success_rate
\* + 0.4 * high_confidence_rate + 0.2 * min(avg_text_quality / 3, 1))), the
\* rates over all results and the text quality the mean words per second of
\* the successful ones (the equation is multiplied by the two counts); so it
\* never exceeds 99.0, and is exactly 99.0 when every result is successful
\* and of high confidence and the mean is at least 3 words per second.
C12_EstimateCapped ==
    ag_pc = "measured" =>
        LET n == Len(segment_results)
            s == Cardinality(SuccessfulResults)
            h == Cardinality(HighConfidenceResults)
            k == IF s = 0 THEN 1 ELSE s
            sumQ == SumQuality(segment_results, SuccessfulResults)
            m == IF n = 0 THEN 1 ELSE n
            raw == 40 * AccOne * (s + h) * k + 20 * m * Min(sumQ, AccOne * k)
            e == accuracy_metrics.estimated_accuracy
        IN /\ e * m * k = Min(99 * AccOne * m * k, raw)
           /\ e <= 99 * AccOne
           /\ (n > 0 /\ s = n /\ h = n /\ sumQ >= AccOne * k) => e = 99 * AccOne

\* Two successful results of high confidence with 4 words per second: 99.0.
C12_Witness ==
    /\ ag_pc = "measured"
    /\ Len(segment_results) = 2
    /\ SuccessfulResults = {1, 2}
    /\ HighConfidenceResults = {1, 2}
    /\ \A i \in {1, 2} :
          segment_results[i].text.words * TicksPerSecond >= 3 * segment_results[i].duration
    /\ accuracy_metrics.estimated_accuracy = 99 * AccOne
\* ------------------------------------------------------------------------
\* Properties of speaker diarization
\* ------------------------------------------------------------------------
\* C13: when num_speakers = n is supplied, the returned segments use exactly
\* n distinct speaker labels on every path (embedding path, fewer voiced
\* frames than n, energy-based fallback), except after a clustering failure.
C13_ExactlyNumSpeakers ==
    (dz_pc = "done" /\ num_speakers # NoneSpeakers /\ ~diarization.clustering_failed) =>
        Cardinality(diarization.speakers) = num_speakers

\* The audio has no voiced frame: all of it is silence.
Silent(a) == SumPower(a, 1, Len(a)) = 0

\* C14: on an audio without any voiced frame the run ends in a fatal error:
\* diarize_audio does not return (and so returns no fabricated segments).
C14_NoVoiceIsFatal ==
    dz_pc = "done" => ~Silent(audio)

\* C15: without the embedding model, or when the embedding path raised,
\* diarize_audio returns the energy-based fallback's list of speaker
\* segments, and that list is not empty.
C15_FallbackNonEmpty ==
    (dz_pc = "done" /\ diarization.engine = "energy_based_fallback") =>
        Len(diarization.segments) > 0
\* ------------------------------------------------------------------------
\* Properties of a run of process_multilingual_audio
\* ------------------------------------------------------------------------
\* C16: when process_multilingual_audio returns or raises, every temporary
\* slice file created during the call has been deleted, a slice whose write
\* failed after the file was created included.
C16_TempFilesDeleted ==
    sp_pc \in {"finished", "raised_out"} => disk_files = {}
\* C17: Overlap Resolution is a pure function of its input list: after the
\* call every segment of the input list has the start, end, duration and
\* speaker it had before, and a second call on the same list object returns
\* what the first call returned.
C17_InputUnchanged ==
    or_pc \in {"cleaned", "recleaned"} =>
        /\ raw_segments = raw_before
        /\ create_overlap_free_segments(raw_segments, min_segment_duration,
                                        overlap_threshold).clean = clean_segments
\* The results that are success with confidence > 0, of a speaker.
SuccessfulOf(speaker) ==
    {i \in 1..Len(segment_results) :
        /\ segment_results[i].speaker = speaker
        /\ segment_results[i].processing_status = "success"
        /\ segment_results[i].language_confidence > 0}

\* C19: failed and too-short segments contribute no weight to a profile and
\* are not counted in segments_analyzed or consistency, yet each is counted
\* in total_segments and failed_segments of the accuracy metrics:
\* total_segments = successful_segments + failed_segments = the number of
\* clean segments.
C19_FailedExcludedButCounted ==
    ag_pc = "measured" =>
        /\ \A i \in 1..Len(segment_results) :
              segment_results[i].processing_status # "success" =>
                  i \notin DOMAIN segment_weights
        /\ \A speaker \in DOMAIN speaker_languages :
              LET profile == speaker_languages[speaker]
                  own == SuccessfulOf(speaker)
                  agreeing == {i \in own : segment_results[i].language = profile.language}
              IN /\ profile.segments_analyzed = Cardinality(own)
                 /\ profile.consistency * Cardinality(own) = Cardinality(agreeing) * ConfOne
        /\ accuracy_metrics.total_segments = Len(segments)
        /\ accuracy_metrics.failed_segments =
               Cardinality({i \in 1..Len(segment_results) :
                               segment_results[i].processing_status # "success"})
        /\ accuracy_metrics.total_segments =
               accuracy_metrics.successful_segments + accuracy_metrics.failed_segments

\* A speaker with a too-short and a transcribed segment: one segment analyzed,
\* two counted, one of them failed.
C19_Witness ==
    /\ ag_pc = "measured"
    /\ Len(segment_results) = 2
    /\ segment_results[1].speaker = segment_results[2].speaker
    /\ segment_results[1].processing_status = "success"
    /\ segment_results[2].error = "too_short"
    /\ speaker_languages[segment_results[1].speaker].segments_analyzed = 1
    /\ accuracy_metrics.total_segments = 2
    /\ accuracy_metrics.failed_segments = 1

\* ------------------------------------------------------------------------
\* Properties of a call of process_multilingual_audio
\* ------------------------------------------------------------------------

\* The call has done none of its processing steps.
NothingProcessed ==
    /\ preprocessing \in {"no", "requested"}
    /\ dz_pc = "off"
    /\ diarization = NoDiarization
    /\ or_pc = "off"
    /\ sp_pc = "off"
    /\ ag_pc = "off"
    /\ oracle_log = <<>>
    /\ language_detections = <<>>
    /\ segment_results = <<>>
    /\ temp_files = {}
    /\ disk_files = {}

\* C18: if the audio path does not exist, the call raises the file-not-found
\* error before any processing step: when the error is raised there has been
\* no preprocessing, no diarization, no oracle call and no temporary file, and
\* a call on a missing path never gets past the check.
C18_FileNotFoundFirst ==
    /\ run_pc = "file_not_found" => NothingProcessed
    /\ ~path_exists => (run_pc \in {"called", "file_not_found"} /\ NothingProcessed)

\* The error raised on a call that asked for preprocessing.
C18_Witness ==
    /\ run_pc = "file_not_found"
    /\ ~path_exists
    /\ preprocessing = "requested"

\* The speaker IDs of the output.
OutputSpeakers == {aligned_segments[i].speaker : i \in 1..Len(aligned_segments)}

\* C20: for the ten-second clip clustered in two speakers with a clean split
\* and oracles reporting one language, the output has exactly 2 speaker IDs,
\* its final segments run from 0 to 10 s with no gap above
\* min_segment_duration between neighbours, and every final segment and both
\* speakers' profiles carry the same language.
C20_EndToEnd ==
    (run_pc = "running" /\ ag_pc \in {"aligned", "measured"}) =>
        /\ Cardinality(OutputSpeakers) = 2
        /\ DOMAIN speaker_languages = OutputSpeakers
        /\ Len(aligned_segments) >= 2
        /\ aligned_segments[1].start = 0
        /\ aligned_segments[Len(aligned_segments)].end = ToTicks(ClipBlocks)
        /\ \A i \in 1..(Len(aligned_segments) - 1) :
              aligned_segments[i + 1].start - aligned_segments[i].end
                  <= min_segment_duration
        /\ \A i, j \in 1..Len(aligned_segments) :
              aligned_segments[i].language = aligned_segments[j].language
        /\ \A spk \in OutputSpeakers :
              speaker_languages[spk].language = aligned_segments[1].language

\* The finished call whose diarization overlapped by a second around the
\* middle of the clip and whose second segment was trimmed.
C20_Witness ==
    /\ run_pc = "running"
    /\ sp_pc = "finished"
    /\ Len(raw_before) = 2
    /\ raw_before[2].start < raw_before[1].end
    /\ Len(aligned_segments) = 2
    /\ aligned_segments[2].start = aligned_segments[1].end
    /\ aligned_segments[1].language_assignment_method = "speaker_level"

\* ------------------------------------------------------------------------
\* Properties of the cluster labels
\* ------------------------------------------------------------------------
\* C21: after clustering the labels are numbered in order of first appearance
\* along the frames: the first frame carries label 0, and a label j > 0 is
\* seen only after every smaller label has been seen, whatever labels the
\* clustering returned.
C21_FirstAppearanceOrder ==
    dz_pc = "clustered" =>
        /\ cluster_labels[1] = 0
        /\ \A i \in 1..Len(cluster_labels) :
              \A smaller \in 0..(cluster_labels[i] - 1) :
                  \E k \in 1..(i - 1) : cluster_labels[k] = smaller

\* ------------------------------------------------------------------------
\* Properties of the overlap cases
\* ------------------------------------------------------------------------
\* The i-th dict of the sorted input reaches the overlap handling, overlaps
\* the last accepted segment by more than overlap_threshold, and the two
\* speakers differ.
LargeOverlapOfTwoSpeakers(st, segment) ==
    /\ segment.duration >= min_segment_duration
    /\ Len(st.clean) > 0
    /\ segment.start < st.clean[Len(st.clean)].end
    /\ st.clean[Len(st.clean)].end - segment.start > overlap_threshold
    /\ segment.speaker # st.clean[Len(st.clean)].speaker

\* C22: when the next segment overlaps the last accepted segment by more than
\* overlap_threshold and the speakers differ, the longer of the two is kept:
\* the new segment is appended with its start at the previous segment's end
\* if its duration exceeds the overlap, and dropped otherwise; the previous
\* segment stays as it was; a new segment longer than the previous one is
\* never the one dropped.
C22_LongerSegmentKept ==
    or_pc = "cleaned" =>
        \A i \in 1..Len(raw_before) :
            LET st == LoopStateBefore(raw_before, i, min_segment_duration, overlap_threshold)
                k == SortedOrder(raw_before)[i]
                segment == st.raw[k]
                n == Len(st.clean)
                out == LoopBody(st, k, min_segment_duration, overlap_threshold)
            IN LargeOverlapOfTwoSpeakers(st, segment) =>
                  /\ IF segment.duration > st.clean[n].end - segment.start
                     THEN /\ Len(out.clean) = n + 1
                          /\ out.clean[n + 1].start = st.clean[n].end
                          /\ out.clean[n + 1].end = segment.end
                          /\ out.clean[n] = st.clean[n]
                     ELSE out.clean = st.clean
                  /\ segment.duration > st.clean[n].duration => Len(out.clean) = n + 1

\* C26: every segment returned by Overlap Resolution has duration >=
\* min_segment_duration and end > start, also when its start was trimmed to
\* the previous segment's end or a boundary was moved to an overlap midpoint.
C26_ReturnedNotShort ==
    or_pc = "cleaned" =>
        \A i \in 1..Len(clean_segments) :
            /\ clean_segments[i].duration >= min_segment_duration
            /\ clean_segments[i].end > clean_segments[i].start

\* ------------------------------------------------------------------------
\* Properties of the transcription after consensus
\* ------------------------------------------------------------------------
\* C23: a segment whose transcription returns was transcribed with the
\* consensus language as hint exactly when the consensus confidence >=
\* min_language_confidence, and then keeps the consensus language and
\* confidence; otherwise no hint was given, the recorded language is one the
\* transcriber reports and the recorded confidence is 0.5; a segment without
\* any successful detection attempt (threshold above 0) is in the second case.
C23_HintIffConfident ==
    [][(/\ sp_pc = "transcribe"
        /\ Len(segment_results') = Len(segment_results) + 1
        /\ segment_results'[Len(segment_results')].processing_status = "success") =>
           LET result == segment_results'[Len(segment_results')]
               entry == oracle_log'[Len(oracle_log')]
           IN /\ IF final.confidence >= min_language_confidence
                 THEN /\ entry.hint = final.language
                      /\ result.language = final.language
                      /\ result.language_confidence = final.confidence
                 ELSE /\ entry.hint = "none"
                      /\ result.language \in transcriber_languages
                      /\ result.language_confidence = FallbackConfidence
              /\ (Len(language_detections) = 0 /\ min_language_confidence > 0) =>
                    (entry.hint = "none" /\ result.language_confidence = FallbackConfidence)
    ]_vars

\* A consensus exactly at the threshold was used as the hint and kept.
C23_Witness ==
    /\ Len(segment_results) = 1
    /\ segment_results[1].processing_status = "success"
    /\ segment_results[1].language_confidence = min_language_confidence
    /\ min_language_confidence = DefaultMinConfidence
    /\ oracle_log[1].hint = segment_results[1].language

\* ------------------------------------------------------------------------
\* Properties of a speaker heard in one language
\* ------------------------------------------------------------------------
\* The analyzed results of the speaker, and whether all of them (at least one)
\* report one language.
AnalyzedResultsOf(speaker) ==
    {i \in 1..Len(segment_results) :
        /\ segment_results[i].speaker = speaker
        /\ segment_results[i].processing_status = "success"
        /\ segment_results[i].language_confidence > 0}

OneLanguageSpeaker(speaker) ==
    /\ AnalyzedResultsOf(speaker) # {}
    /\ \A i, j \in AnalyzedResultsOf(speaker) :
          segment_results[i].language = segment_results[j].language

\* C28: a speaker whose analyzed segments (at least one) all report the same
\* language has a profile with that language, confidence exactly 1.0 and
\* consistency 1.0, whatever the segments' confidences; with
\* min_language_confidence <= 1 none of the speaker's segments is assigned by
\* the fallback tier, and each of its segments below the threshold gets the
\* speaker's language with final confidence 1.0.
C28_OneLanguageFullConfidence ==
    ag_pc \in {"aligned", "measured"} =>
        \A speaker \in SPEAKERS :
            OneLanguageSpeaker(speaker) =>
                /\ speaker \in DOMAIN speaker_languages
                /\ \A i \in AnalyzedResultsOf(speaker) :
                      speaker_languages[speaker].language = segment_results[i].language
                /\ speaker_languages[speaker].confidence = ConfOne
                /\ speaker_languages[speaker].consistency = ConfOne
                /\ min_language_confidence <= ConfOne =>
                      \A k \in 1..Len(aligned_segments) :
                          aligned_segments[k].speaker = speaker =>
                              /\ aligned_segments[k].language_assignment_method # "fallback"
                              /\ aligned_segments[k].segment_language_confidence
                                     < min_language_confidence =>
                                    /\ aligned_segments[k].language
                                           = speaker_languages[speaker].language
                                    /\ aligned_segments[k].language_confidence = ConfOne
                                    /\ aligned_segments[k].language_assignment_method
                                           = "speaker_level"

\* A speaker with two segments in one language at confidence 0.5, below the
\* threshold: both are assigned at speaker level with confidence 1.0.
C28_Witness ==
    /\ ag_pc = "aligned"
    /\ Len(segment_results) = 2
    /\ segment_results[1].speaker = segment_results[2].speaker
    /\ OneLanguageSpeaker(segment_results[1].speaker)
    /\ AnalyzedResultsOf(segment_results[1].speaker) = {1, 2}
    /\ segment_results[1].language_confidence = FallbackConfidence
    /\ segment_results[2].language_confidence = FallbackConfidence
    /\ min_language_confidence = DefaultMinConfidence
    /\ aligned_segments[1].language_assignment_method = "speaker_level"
    /\ aligned_segments[2].language_confidence = ConfOne

\* ------------------------------------------------------------------------
\* Properties of the number of speakers
\* ------------------------------------------------------------------------
\* C27: without num_speakers, diarize_audio returns segments that use at most
\* max_speakers distinct speaker labels (max_speakers >= 1), on the embedding
\* path and on the energy-based fallback path.
C27_AtMostMaxSpeakers ==
    (dz_pc = "done" /\ num_speakers = NoneSpeakers /\ max_speakers >= 1) =>
        Cardinality(diarization.speakers) <= max_speakers

\* ------------------------------------------------------------------------
\* Properties of overlapping invocations
\* ------------------------------------------------------------------------
\* C24: the temporary slice files of an invocation are private to it: the
\* cleanup that ends another invocation never deletes a slice this invocation
\* has saved and has not yet finished using, so such a slice is on disk.
C24_SlicesPrivate ==
    \A c \in Calls :
        call_pc[c] = "slice_saved" => call_slice[c] \in disk_files

\* ------------------------------------------------------------------------
\* Properties of the job queue
\* ------------------------------------------------------------------------
\* C25: after any sequence and interleaving of uploads, job completions, job
\* failures, timeout cleanups and startup recovery, the number of queue
\* entries with status PROCESSING never exceeds max_concurrent.
C25_AtMostMaxConcurrent ==
    Cardinality(Processing(status)) <= max_concurrent

\* The limit is reached after a timeout cleanup, and an entry waits.
C25_Witness ==
    /\ Cardinality(Processing(status)) = max_concurrent
    /\ Queued(status) # {}
    /\ pending = "none"
    /\ \E e \in Jobs : status[e] = "FAILED" /\ expired[e] /\ task[e]

\* C29: COMPLETED and FAILED are terminal: an entry with one of them keeps its
\* status under every step; the only changes of a status are from QUEUED to
\* PROCESSING and from PROCESSING to COMPLETED or FAILED (and the creation of
\* the row as QUEUED).
C29_TerminalStatuses ==
    [][\A e \in Jobs :
          /\ status[e] \in {"COMPLETED", "FAILED"} => status'[e] = status[e]
          /\ status'[e] # status[e] =>
                \/ status[e] = "none" /\ status'[e] = "QUEUED"
                \/ status[e] = "QUEUED" /\ status'[e] = "PROCESSING"
                \/ status[e] = "PROCESSING" /\ status'[e] \in {"COMPLETED", "FAILED"}
    ]_vars

\* C30: every entry with status QUEUED eventually leaves QUEUED, given that
\* every started job ends and uploads stop, after any history, restarts and
\* timeout cleanups included.
C30_QueuedEventuallyLeaves ==
    \A e \in Jobs : (status[e] = "QUEUED") ~> (status[e] # "QUEUED")
=============================================================================
